---- MODULE Spec2Model ----
(***************************************************************************)
(* A model of the bubble-lang compiler passes (libbubble): the binder, the *)
(* type checker, integer inference and the for desugarer, run in the order *)
(* of bubblec's build_object over a bounded family of syntax trees.        *)
(*                                                                         *)
(* A syntax tree is a nested record.  A pass is an operator that walks the *)
(* tree as the visitor of the source does and returns a record             *)
(*      [err |-> the Result ("Ok", an error variant or "panic"),           *)
(*       s   |-> the visitor struct after the walk,                        *)
(*       n   |-> the node as an Ok walk left it (annotation slots filled)] *)
(* so that the in-place mutation of the source is the returned node.       *)
(***************************************************************************)
EXTENDS Integers, Sequences, FiniteSets, TLC

VARIABLES
    stmts,      \* Vec<GlobalStatement>: the tree as the last visitor that
                \* succeeded left it (a failed build drops the tree)
    stage,      \* position of build_object: which pass ran last
    error,      \* the Result of the last pass: "Ok" or the error variant
    binder,     \* the Binder struct as bind_statements left it
    lhs,        \* Type::is_compatible_with: self
    rhs,        \* Type::is_compatible_with: other
    compat,     \* Type::is_compatible_with: the results, both directions
    symbols,    \* codegen: the SymbolsMap dump_global_statements returned
    trips,      \* the value the loop bound of the program evaluates to
    trace,      \* the side effects of running the translated program, in order
    verified,   \* what Module::verify said of the translated module
    source,     \* the statements as parsed, before any pass
    module,     \* Translator: the blocks of the functions added to the Module
    targets,    \* bubblec: the source files still to build
    built_objects, \* build_objects_targets: the object paths pushed so far
    files,      \* the object files and executables on disk
    exit_status, \* the status the bubblec process ended with
    scoped,     \* a ScopedMap under its own operations
    found       \* the result of the last ScopedMap::find_symbol

codegen_vars == <<symbols, trips, trace, verified, source, module>>

driver_vars == <<targets, built_objects, files, exit_status>>

scoped_vars == <<scoped, found>>

vars == <<stmts, stage, error, binder, lhs, rhs, compat, codegen_vars, driver_vars, scoped_vars>>

(***************************************************************************)
(* Finite maps (HashMap<String, T>) and options.                           *)
(***************************************************************************)
EmptyMap == [x \in {} |-> 0]

MapInsert(m, k, v) == [x \in (DOMAIN m) \cup {k} |-> IF x = k THEN v ELSE m[x]]

(***************************************************************************)
(* ast::Definition, and the empty definition slot (Option::None).          *)
(***************************************************************************)
NoDef == [d |-> "None", at |-> 0]

LocalVariable(at) == [d |-> "LocalVariable", at |-> at]

FunctionDef(at) == [d |-> "Function", at |-> at]

StructDef(at) == [d |-> "Struct", at |-> at]

(***************************************************************************)
(* type_system::Type.  NoTy is the empty ty slot (Option::None).           *)
(***************************************************************************)
NoTy == [t |-> "None"]

Ty(name) == [t |-> name]

Ptr(pointee) == [t |-> "Ptr", of |-> pointee]

Array(size, array_type) == [t |-> "Array", size |-> size, of |-> array_type]

Null(concrete_type) == [t |-> "Null", concrete_type |-> concrete_type]

Function(parameters, return_type) ==
    [t |-> "Function", parameters |-> parameters, return_type |-> return_type]

Struct(name, fields) == [t |-> "Struct", name |-> name, fields |-> fields]

(***************************************************************************)
(* ast::TypeKind and ast::Type (a kind with a definition slot).            *)
(***************************************************************************)
NoKind == [k |-> "None"]

Kind(name) == [k |-> name]

KIdentifier(name) == [k |-> "Identifier", name |-> name]

TypeNode(kind) == [kind |-> kind, definition |-> NoDef]

KPtr(kind) == [k |-> "Ptr", to |-> TypeNode(kind)]

KArray(size, kind) == [k |-> "Array", size |-> size, array_type |-> TypeNode(kind)]

(***************************************************************************)
(* ast::Expression.                                                        *)
(***************************************************************************)
NoExpr == [e |-> "None"]

Lit(literal_type) ==
    [e |-> "Literal", literal_type |-> literal_type, definition |-> NoDef, ty |-> NoTy]

True == Lit([l |-> "True"])

Integer == Lit([l |-> "Integer"])

Float == Lit([l |-> "Float"])

String == Lit([l |-> "String"])

NullLit == Lit([l |-> "Null", ty |-> NoTy])

Identifier(name) == Lit([l |-> "Identifier", name |-> name])

ArrayAccess(identifier, index) ==
    Lit([l |-> "ArrayAccess", identifier |-> identifier, index |-> index, ty |-> NoTy])

Call(callee, arguments) ==
    [e |-> "Call", callee |-> callee, arguments |-> arguments,
     definition |-> NoDef, ty |-> NoTy]

BinaryOperation(left, op, right) ==
    [e |-> "BinaryOperation", left |-> left, op |-> op, right |-> right, ty |-> NoTy]

Assignment(left, right) ==
    [e |-> "Assignment", left |-> left, right |-> right, ty |-> NoTy]

ArrayInitializer(values) == [e |-> "ArrayInitializer", values |-> values, ty |-> NoTy]

AddrOf(expr) == [e |-> "AddrOf", expr |-> expr]

Deref(expr) == [e |-> "Deref", expr |-> expr]

Group(expr) == [e |-> "Group", expr |-> expr]

(***************************************************************************)
(* ast::Statement and ast::GlobalStatement.  loc is the begin of the       *)
(* node's TokenLocation; it stands for the address a Definition points to. *)
(***************************************************************************)
Let(loc, name, declaration_type, init_exp) ==
    [s |-> "Let", loc |-> loc, name |-> name, declaration_type |-> declaration_type,
     init_exp |-> init_exp, ty |-> NoTy]

If(condition, then_clause, else_clause) ==
    [s |-> "If", condition |-> condition, then_clause |-> then_clause,
     else_clause |-> else_clause]

While(condition, body) == [s |-> "While", condition |-> condition, body |-> body]

For(init_decl, continue_expression, modify_expression, body) ==
    [s |-> "For", init_decl |-> init_decl, continue_expression |-> continue_expression,
     modify_expression |-> modify_expression, body |-> body]

Return(exp) == [s |-> "Return", exp |-> exp]

Break == [s |-> "Break"]

Continue == [s |-> "Continue"]

ExprStmt(expr) == [s |-> "Expression", expr |-> expr, naked |-> FALSE]

FunctionStatement(loc, name, parameters, return_type, is_extern, body) ==
    [g |-> "Function", loc |-> loc, name |-> name, parameters |-> parameters,
     return_type |-> return_type, is_extern |-> is_extern, body |-> body, ty |-> NoTy]

StructStatement(loc, name, fields) ==
    [g |-> "Struct", loc |-> loc, name |-> name, fields |-> fields, ty |-> NoTy]

(***************************************************************************)
(* type_system::utils::ScopedMap: a stack of scopes, innermost last.       *)
(***************************************************************************)
ScopedMap_default == <<EmptyMap>>

new_scope(m) == Append(m, EmptyMap)

delete_scope(m) == SubSeq(m, 1, Len(m) - 1)

insert_symbol(m, name, element) ==
    [m EXCEPT ![Len(m)] = MapInsert(m[Len(m)], name, element)]

\* variant: the scopes are searched from the outermost one
find_symbol_outermost(m, symbol) ==
    LET holders == {i \in 1..Len(m) : symbol \in DOMAIN m[i]}
    IN  IF holders = {} THEN <<>>
        ELSE LET bottom == CHOOSE i \in holders : \A j \in holders : i <= j
             IN  <<m[bottom][symbol]>>

\* iter().rev().find_map(|scope| scope.get(symbol)): <<>> is None, <<v>> is Some(v)
find_symbol(m, symbol) ==
    LET holders == {i \in 1..Len(m) : symbol \in DOMAIN m[i]}
    IN  IF holders = {} THEN <<>>
        ELSE LET top == CHOOSE i \in holders : \A j \in holders : j <= i
             IN  <<m[top][symbol]>>

\* HashMap::get
MapGet(m, k) == IF k \in DOMAIN m THEN <<m[k]>> ELSE <<>>

(***************************************************************************)
(* type_system::binder::Binder.                                            *)
(***************************************************************************)
R(err, s, n) == [err |-> err, s |-> s, n |-> n]

\* the ? operator: an Err is returned as it is, an Ok result is handed on.
\* n is the annotated node of an Ok result only.
Try(r, Rest(_)) == IF r.err # "Ok" THEN r ELSE Rest(r)

Binder_default ==
    [functions_statements |-> EmptyMap, struct_statement |-> EmptyMap,
     local_variables |-> ScopedMap_default, nested_loop |-> 0, in_function |-> FALSE]

begin_loop(b) ==
    [b EXCEPT !.nested_loop = @ + 1, !.local_variables = new_scope(@)]

\* variant: leaving a loop drops its scope but keeps the loop depth
end_loop_keeps_depth(b) ==
    [b EXCEPT !.local_variables = delete_scope(@)]

end_loop(b) ==
    [b EXCEPT !.nested_loop = @ - 1, !.local_variables = delete_scope(@)]

is_subscriptable(expr) ==
    CASE expr.e = "Literal" -> expr.literal_type.l \in {"Identifier", "String"}
      [] expr.e = "Call" -> TRUE
      [] OTHER -> FALSE

set_definition(node, definition) == [node EXCEPT !.definition = definition]

Binder_visit_literal(b, expr) ==
    LET lt == expr.literal_type IN
    CASE lt.l = "Identifier" ->
            LET var == find_symbol(b.local_variables, lt.name) IN
            IF var # <<>> THEN R("Ok", b, set_definition(expr, LocalVariable(var[1])))
            ELSE R("UndeclaredVariable", b, expr)
      [] lt.l = "ArrayAccess" /\ is_subscriptable(lt.identifier) ->
            IF lt.identifier.e = "Literal" /\ lt.identifier.literal_type.l # "Identifier"
            THEN R("panic", b, expr)   \* unreachable!() on a string base
            ELSE
            LET name == IF lt.identifier.e = "Literal" THEN lt.identifier.literal_type.name
                        ELSE lt.identifier.callee
                var == find_symbol(b.local_variables, name)
                f == MapGet(b.functions_statements, name)
            IN  IF var # <<>> THEN R("Ok", b, set_definition(expr, LocalVariable(var[1])))
                ELSE IF f # <<>> THEN R("Ok", b, set_definition(expr, FunctionDef(f[1])))
                ELSE R("UndeclaredVariable", b, expr)
      [] lt.l = "ArrayAccess" -> R("NotSubscriptable", b, expr)
      [] OTHER -> R("Ok", b, expr)

RECURSIVE Binder_visit_expression(_, _)
RECURSIVE Binder_visit_expressions(_, _)
RECURSIVE Binder_visit_statement_kind(_, _)
RECURSIVE Binder_visit_statements_vec(_, _)

\* for arg in &mut expr.arguments { self.visit_expression(arg)?; }
Binder_visit_expressions(b, exprs) ==
    IF exprs = <<>> THEN R("Ok", b, <<>>)
    ELSE Try(Binder_visit_expression(b, Head(exprs)), LAMBDA r :
         Try(Binder_visit_expressions(r.s, Tail(exprs)), LAMBDA rr :
         R("Ok", rr.s, <<r.n>> \o rr.n)))

Binder_visit_call(b, expr) ==
    LET declaration == MapGet(b.functions_statements, expr.callee) IN
    IF declaration = <<>> THEN R("UndeclaredFunction", b, expr)
    ELSE Try(Binder_visit_expressions(b, expr.arguments), LAMBDA r :
         R("Ok", r.s, [set_definition(expr, FunctionDef(declaration[1]))
                          EXCEPT !.arguments = r.n]))

\* MutableVisitor::visit_expression with the Binder's overrides; the other
\* kinds take the trait's default walk
Binder_visit_expression(b, expr) ==
    CASE expr.e \in {"Group", "AddrOf"} ->
            Try(Binder_visit_expression(b, expr.expr), LAMBDA r :
            R("Ok", r.s, [expr EXCEPT !.expr = r.n]))
      [] expr.e = "BinaryOperation" /\ expr.right = NoExpr ->
            Try(Binder_visit_expression(b, expr.left), LAMBDA l :
            R("Ok", l.s, [expr EXCEPT !.left = l.n]))
      [] expr.e \in {"BinaryOperation", "Assignment"} ->
            Try(Binder_visit_expression(b, expr.left), LAMBDA l :
            Try(Binder_visit_expression(l.s, expr.right), LAMBDA r :
            R("Ok", r.s, [expr EXCEPT !.left = l.n, !.right = r.n])))
      [] expr.e = "Literal" -> Binder_visit_literal(b, expr)
      [] expr.e = "Call" -> Binder_visit_call(b, expr)
      [] expr.e = "ArrayInitializer" ->
            Try(Binder_visit_expressions(b, expr.values), LAMBDA r :
            R("Ok", r.s, [expr EXCEPT !.values = r.n]))
      [] expr.e = "Deref" -> R("panic", b, expr)   \* todo!()

Binder_visit_let(b, stmt) ==
    Try(Binder_visit_expression(
            [b EXCEPT !.local_variables = insert_symbol(@, stmt.name, stmt.loc)],
            stmt.init_exp),
        LAMBDA r : R("Ok", r.s, [stmt EXCEPT !.init_exp = r.n]))

\* variant: the scope of a clause is never deleted
Binder_visit_scope_kept(b, ss) ==
    Binder_visit_statements_vec([b EXCEPT !.local_variables = new_scope(@)], ss)

\* new_scope, the statements, delete_scope
Binder_visit_scope(b, ss) ==
    Try(Binder_visit_statements_vec([b EXCEPT !.local_variables = new_scope(@)], ss),
        LAMBDA r : R("Ok", [r.s EXCEPT !.local_variables = delete_scope(@)], r.n))

Binder_visit_if(b, stmt) ==
    Try(Binder_visit_expression(b, stmt.condition), LAMBDA c :
    Try(Binder_visit_scope(c.s, stmt.then_clause), LAMBDA t :
    IF stmt.else_clause = <<>>
    THEN R("Ok", t.s, [stmt EXCEPT !.condition = c.n, !.then_clause = t.n])
    ELSE Try(Binder_visit_scope(t.s, stmt.else_clause[1]), LAMBDA el :
         R("Ok", el.s, [stmt EXCEPT !.condition = c.n, !.then_clause = t.n,
                                    !.else_clause = <<el.n>>]))))

Binder_visit_while(b, stmt) ==
    Try(Binder_visit_expression(b, stmt.condition), LAMBDA c :
    Try(Binder_visit_statements_vec(begin_loop(c.s), stmt.body), LAMBDA body :
    R("Ok", end_loop(body.s), [stmt EXCEPT !.condition = c.n, !.body = body.n])))

Binder_visit_for(b, stmt) ==
    Try(Binder_visit_let(begin_loop(b), stmt.init_decl), LAMBDA d :
    Try(Binder_visit_expression(d.s, stmt.modify_expression), LAMBDA m :
    Try(Binder_visit_expression(m.s, stmt.continue_expression), LAMBDA c :
    Try(Binder_visit_statements_vec(c.s, stmt.body), LAMBDA body :
    R("Ok", end_loop(body.s),
      [stmt EXCEPT !.init_decl = d.n, !.modify_expression = m.n,
                   !.continue_expression = c.n, !.body = body.n])))))

Binder_visit_return(b, stmt) ==
    IF ~b.in_function THEN R("BadReturn", b, stmt)
    ELSE IF stmt.exp = NoExpr THEN R("Ok", b, stmt)
    ELSE Try(Binder_visit_expression(b, stmt.exp), LAMBDA r :
         R("Ok", r.s, [stmt EXCEPT !.exp = r.n]))

Binder_visit_break(b, stmt) ==
    IF b.nested_loop = 0 THEN R("BadBreak", b, stmt) ELSE R("Ok", b, stmt)

Binder_visit_continue(b, stmt) ==
    IF b.nested_loop = 0 THEN R("BadContinue", b, stmt) ELSE R("Ok", b, stmt)

\* MutableVisitor::visit_statement_kind
Binder_visit_statement_kind(b, stmt) ==
    CASE stmt.s = "If" -> Binder_visit_if(b, stmt)
      [] stmt.s = "Let" -> Binder_visit_let(b, stmt)
      [] stmt.s = "While" -> Binder_visit_while(b, stmt)
      [] stmt.s = "For" -> Binder_visit_for(b, stmt)
      [] stmt.s = "Return" -> Binder_visit_return(b, stmt)
      [] stmt.s = "Break" -> Binder_visit_break(b, stmt)
      [] stmt.s = "Continue" -> Binder_visit_continue(b, stmt)
      [] stmt.s = "Expression" ->
            Try(Binder_visit_expression(b, stmt.expr), LAMBDA r :
            R("Ok", r.s, [stmt EXCEPT !.expr = r.n]))

\* MutableVisitor::visit_statements_vec (and visit_statements, the same loop)
Binder_visit_statements_vec(b, ss) ==
    IF ss = <<>> THEN R("Ok", b, <<>>)
    ELSE Try(Binder_visit_statement_kind(b, Head(ss)), LAMBDA r :
         Try(Binder_visit_statements_vec(r.s, Tail(ss)), LAMBDA rr :
         R("Ok", rr.s, <<r.n>> \o rr.n)))

\* Binder::visit_type: binds a Type node naming a struct
Binder_visit_type(b, expr) ==
    IF expr.kind.k = "Identifier"
    THEN LET declaration == MapGet(b.struct_statement, expr.kind.name) IN
         IF declaration # <<>>
         THEN R("Ok", b, set_definition(expr, StructDef(declaration[1])))
         ELSE R("UndeclaredStruct", b, expr)
    ELSE R("Ok", b, expr)

\* MutableVisitor::visit_type_kind: the default the Binder does not override
Binder_visit_type_kind(b, kind) == R("Ok", b, kind)

RECURSIVE Binder_visit_fields(_, _)
\* for (kind, _) in &mut stmt.fields { self.visit_type_kind(kind)?; }
Binder_visit_fields(b, fields) ==
    IF fields = <<>> THEN R("Ok", b, <<>>)
    ELSE Try(Binder_visit_type_kind(b, Head(fields).kind), LAMBDA r :
         Try(Binder_visit_fields(r.s, Tail(fields)), LAMBDA rr :
         R("Ok", rr.s, <<[Head(fields) EXCEPT !.kind = r.n]>> \o rr.n)))

Binder_visit_struct(b, stmt) ==
    Try(Binder_visit_fields(
            [b EXCEPT !.struct_statement = MapInsert(@, stmt.name, stmt.loc)],
            stmt.fields),
        LAMBDA r : R("Ok", r.s, [stmt EXCEPT !.fields = r.n]))

RECURSIVE insert_parameters(_, _)
\* for let_stmt in &stmt.parameters { insert_symbol(&let_stmt.name, let_stmt) }
insert_parameters(m, parameters) ==
    IF parameters = <<>> THEN m
    ELSE insert_parameters(
             insert_symbol(m, Head(parameters).name, Head(parameters).loc),
             Tail(parameters))

\* Binder::visit_function after the name is registered: the body in a scope
\* holding the parameters
Binder_visit_body(b, stmt) ==
    Try(Binder_visit_statements_vec(
            [b EXCEPT !.local_variables =
                          insert_parameters(new_scope(@), stmt.parameters),
                      !.in_function = TRUE],
            stmt.body),
        LAMBDA r : R("Ok", [r.s EXCEPT !.in_function = FALSE,
                                       !.local_variables = delete_scope(@)],
                     [stmt EXCEPT !.body = r.n]))

Binder_visit_function(b, stmt) ==
    IF stmt.is_extern
    THEN R("Ok", [b EXCEPT !.functions_statements = MapInsert(@, stmt.name, stmt.loc)],
           stmt)
    ELSE Binder_visit_body(
             [b EXCEPT !.functions_statements = MapInsert(@, stmt.name, stmt.loc)], stmt)

\* MutableVisitor::visit_global_statement
Binder_visit_global_statement(b, stmt) ==
    CASE stmt.g = "Function" -> Binder_visit_function(b, stmt)
      [] stmt.g = "Struct" -> Binder_visit_struct(b, stmt)
      [] stmt.g = "Let" ->
            Try(Binder_visit_let(b, stmt.let), LAMBDA r :
            R("Ok", r.s, [stmt EXCEPT !.let = r.n]))

RECURSIVE bind_statements(_, _)
\* Binder::bind_statements: for stmt in stmts { self.visit_global_statement(stmt)?; }
bind_statements(b, ss) ==
    IF ss = <<>> THEN R("Ok", b, <<>>)
    ELSE Try(Binder_visit_global_statement(b, Head(ss)), LAMBDA r :
         Try(bind_statements(r.s, Tail(ss)), LAMBDA rr :
         R("Ok", rr.s, <<r.n>> \o rr.n)))

(***************************************************************************)
(* The bounded families of syntax trees the passes are run on.  A family   *)
(* fixes the leaves (lets, expression statements, jumps), the conditions   *)
(* and the for headers; the trees are all the nestings of them in if,      *)
(* if/else, while and for with a given number of statements.  A statement  *)
(* at position at holds the locations at .. at + size - 1, so every         *)
(* declaration has a location of its own, as the parser gives it.          *)
(***************************************************************************)
Leaves(fam, at) ==
    {Let(at, l.name, l.kind, l.init) : l \in fam.lets}
        \cup {ExprStmt(e) : e \in fam.exprs}
        \cup fam.jumps

RECURSIVE StmtAt(_, _, _)
RECURSIVE BlockAt(_, _, _)

\* the statements of exactly size nodes that start at location at
StmtAt(fam, at, size) ==
    (IF size = 1 THEN Leaves(fam, at) ELSE {})
    \cup {While(c, b) : c \in fam.conds, b \in BlockAt(fam, at + 1, size - 1)}
    \cup {If(c, b, <<>>) : c \in fam.conds, b \in BlockAt(fam, at + 1, size - 1)}
    \cup UNION {{If(c, t, <<el>>) : c \in fam.conds,
                                    t \in BlockAt(fam, at + 1, size - 1 - k),
                                    el \in BlockAt(fam, at + size - k, k)}
                : k \in 1..(size - 1)}
    \cup {For(Let(at, f.name, f.kind, f.init), f.cont, f.modify, b) :
              f \in fam.fors, b \in BlockAt(fam, at + 1, size - 1)}

\* the statement lists of exactly size nodes that start at location at
BlockAt(fam, at, size) ==
    IF size = 0 THEN {<<>>}
    ELSE UNION {{<<st>> \o rest : st \in StmtAt(fam, at, k),
                                  rest \in BlockAt(fam, at + k, size - k)}
                : k \in 1..size}

Bodies(fam, at, max) == UNION {BlockAt(fam, at, size) : size \in 0..max}

Param(loc, name, kind) == Let(loc, name, kind, NoExpr)

(***************************************************************************)
(* Family "scope": one function main(arr: [2; i32]) whose body nests lets  *)
(* of x and uses of x, alone and as an array index.                        *)
(***************************************************************************)
MaxScopeSize == 3

ScopeFamily ==
    [lets |-> {[name |-> "x", kind |-> NoKind, init |-> Integer],
               [name |-> "x", kind |-> NoKind, init |-> Identifier("x")]},
     exprs |-> {Identifier("x"), ArrayAccess(Identifier("arr"), Identifier("x"))},
     jumps |-> {},
     conds |-> {True},
     fors |-> {[name |-> "x", kind |-> NoKind, init |-> Integer,
                cont |-> True, modify |-> Identifier("x")]}]

Main(parameters, return_type, body) ==
    FunctionStatement(1, "main", parameters, return_type, FALSE, body)

ScopePrograms ==
    {<<Main(<<Param(2, "arr", KArray(2, Kind("I32")))>>, Kind("Void"), body)>>
        : body \in Bodies(ScopeFamily, 3, MaxScopeSize)}

(***************************************************************************)
(* Family "jump": one function whose body nests break and continue.        *)
(***************************************************************************)
MaxJumpSize == 3

JumpFamily ==
    [lets |-> {}, exprs |-> {}, jumps |-> {Break, Continue}, conds |-> {True},
     fors |-> {[name |-> "i", kind |-> NoKind, init |-> Integer,
                cont |-> True, modify |-> Identifier("i")]}]

JumpPrograms ==
    {<<Main(<<>>, Kind("Void"), body)>> : body \in Bodies(JumpFamily, 2, MaxJumpSize)}

(***************************************************************************)
(* Family "call": up to MaxFunctions functions named f or g, extern or     *)
(* with a body of at most one call of f, g or h (h is never declared).     *)
(***************************************************************************)
MaxFunctions == 2

CallBodies == {<<>>} \cup {<<ExprStmt(Call(c, <<>>))>> : c \in {"f", "g", "h"}}

CallFunctions(at) ==
    {FunctionStatement(at, n, <<>>, Kind("Void"), TRUE, <<>>) : n \in {"f", "g"}}
        \cup {FunctionStatement(at, n, <<>>, Kind("Void"), FALSE, b) :
                  n \in {"f", "g"}, b \in CallBodies}

RECURSIVE CallProgramsAt(_, _)
CallProgramsAt(at, count) ==
    IF count = 0 THEN {<<>>}
    ELSE {<<f>> \o rest : f \in CallFunctions(at), rest \in CallProgramsAt(at + 1, count - 1)}

CallPrograms == UNION {CallProgramsAt(1, count) : count \in 1..MaxFunctions}

(***************************************************************************)
(* Family "struct": an optional struct S and a function whose parameter,   *)
(* return type and let are annotated ptr S or ptr i32.                     *)
(***************************************************************************)
StructKinds == {KPtr(KIdentifier("S")), KPtr(Kind("I32"))}

StructPrograms ==
    {prelude \o <<FunctionStatement(2, "main", <<Param(3, "p", pk)>>, rk, FALSE,
                                    <<Let(4, "v", lk, NullLit)>>)>>
        : prelude \in {<<>>} \cup {<<StructStatement(1, "S", <<[kind |-> fk, name |-> "next"]>>)>>
                                      : fk \in StructKinds},
          pk \in StructKinds, rk \in StructKinds, lk \in StructKinds}

BindPrograms == ScopePrograms \cup JumpPrograms \cup CallPrograms \cup StructPrograms

\* the parts of the state a specification does not use stay as they start
NoCodegen == symbols = EmptyMap /\ trips = 0 /\ trace = <<>> /\ verified = "none"
             /\ source = <<>> /\ module = <<>>

NoDriver == targets = <<>> /\ built_objects = <<>> /\ files = {} /\ exit_status = "running"

NoScopedMap == scoped = ScopedMap_default /\ found = <<>>

(***************************************************************************)
(* bubblec::objects::run_type_checker, first half: the binder runs over    *)
(* the parsed statements.                                                  *)
(***************************************************************************)
BindStatements ==
    /\ stage = "parsed"
    /\ LET r == bind_statements(Binder_default, stmts) IN
        /\ stmts' = IF r.err = "Ok" THEN r.n ELSE stmts
        /\ binder' = r.s
        /\ error' = r.err
        /\ stage' = IF r.err = "Ok" THEN "bound" ELSE "failed"
    /\ UNCHANGED <<lhs, rhs, compat>>
    /\ UNCHANGED <<codegen_vars, driver_vars, scoped_vars>>

InitBind ==
    /\ stmts \in BindPrograms
    /\ stage = "parsed"
    /\ error = "Ok"
    /\ binder = Binder_default
    /\ lhs = NoTy /\ rhs = NoTy /\ compat = <<FALSE, FALSE>>
    /\ NoCodegen /\ NoDriver /\ NoScopedMap

NextBind == BindStatements

SpecBind == InitBind /\ [][NextBind]_vars

(***************************************************************************)
(* Reading the trees: the definition slots a bound tree carries, and what  *)
(* lexical scoping says they should hold.  Both walk in source order.      *)
(***************************************************************************)
RECURSIVE Concat(_)
\* the concatenation of a sequence of sequences
Concat(seqs) == IF seqs = <<>> THEN <<>> ELSE Head(seqs) \o Concat(Tail(seqs))

Range(f) == {f[i] : i \in DOMAIN f}

Slot(of, name, definition) == [of |-> of, name |-> name, definition |-> definition]

RECURSIVE KindSlots(_)
\* the definition slots of the Type nodes that name a struct inside a TypeKind
KindSlots(kind) ==
    LET node == IF kind.k = "Ptr" THEN kind.to ELSE kind.array_type IN
    IF kind.k \in {"Ptr", "Array"}
    THEN (IF node.kind.k = "Identifier"
          THEN <<Slot("Type", node.kind.name, node.definition)>> ELSE <<>>)
             \o KindSlots(node.kind)
    ELSE <<>>

RECURSIVE ExprSlots(_)
\* the definition slots of an expression: identifier literals, array-access
\* literals (named by their base) and calls
ExprSlots(expr) ==
    CASE expr.e = "None" -> <<>>
      [] expr.e = "Literal" ->
            LET lt == expr.literal_type IN
            CASE lt.l = "Identifier" -> <<Slot("Identifier", lt.name, expr.definition)>>
              [] lt.l = "ArrayAccess" ->
                    <<Slot("ArrayAccess", "", expr.definition)>>
                        \o ExprSlots(lt.identifier) \o ExprSlots(lt.index)
              [] OTHER -> <<>>
      [] expr.e = "Call" ->
            <<Slot("Call", expr.callee, expr.definition)>>
                \o Concat([i \in DOMAIN expr.arguments |-> ExprSlots(expr.arguments[i])])
      [] expr.e \in {"BinaryOperation", "Assignment"} ->
            ExprSlots(expr.left) \o ExprSlots(expr.right)
      [] expr.e = "ArrayInitializer" ->
            Concat([i \in DOMAIN expr.values |-> ExprSlots(expr.values[i])])
      [] expr.e \in {"Group", "AddrOf", "Deref"} -> ExprSlots(expr.expr)

RECURSIVE StmtSlots(_)
StmtSlots(stmt) ==
    LET Block(ss) == Concat([i \in DOMAIN ss |-> StmtSlots(ss[i])]) IN
    CASE stmt.s = "Let" -> KindSlots(stmt.declaration_type) \o ExprSlots(stmt.init_exp)
      [] stmt.s = "If" ->
            ExprSlots(stmt.condition) \o Block(stmt.then_clause)
                \o (IF stmt.else_clause = <<>> THEN <<>> ELSE Block(stmt.else_clause[1]))
      [] stmt.s = "While" -> ExprSlots(stmt.condition) \o Block(stmt.body)
      [] stmt.s = "For" ->
            StmtSlots(stmt.init_decl) \o ExprSlots(stmt.continue_expression)
                \o ExprSlots(stmt.modify_expression) \o Block(stmt.body)
      [] stmt.s = "Return" -> ExprSlots(stmt.exp)
      [] stmt.s = "Expression" -> ExprSlots(stmt.expr)
      [] OTHER -> <<>>

GlobalSlots(stmt) ==
    CASE stmt.g = "Function" ->
            Concat([i \in DOMAIN stmt.parameters |->
                       KindSlots(stmt.parameters[i].declaration_type)])
                \o KindSlots(stmt.return_type)
                \o Concat([i \in DOMAIN stmt.body |-> StmtSlots(stmt.body[i])])
      [] stmt.g = "Struct" ->
            Concat([i \in DOMAIN stmt.fields |-> KindSlots(stmt.fields[i].kind)])
      [] stmt.g = "Let" -> StmtSlots(stmt.let)

\* every definition slot of the program, in source order
DefinitionSlots(ss) == Concat([i \in DOMAIN ss |-> GlobalSlots(ss[i])])

\* the definition slots of one kind of node, in source order
SlotsOf(of, ss) ==
    LET Is(slot) == slot.of = of IN SelectSeq(DefinitionSlots(ss), Is)

\* the definitions the identifier literals carry, in source order
IdentifierSlots(ss) ==
    LET slots == SlotsOf("Identifier", ss) IN [i \in DOMAIN slots |-> slots[i].definition]

\* Lexical scoping, by passing the environment down: env maps a name to the
\* declaration in force.  An identifier that no declaration covers gets NoDef.
RECURSIVE LexExpr(_, _)
LexExpr(env, expr) ==
    CASE expr.e = "None" -> <<>>
      [] expr.e = "Literal" ->
            LET lt == expr.literal_type IN
            CASE lt.l = "Identifier" ->
                    IF lt.name \in DOMAIN env THEN <<LocalVariable(env[lt.name])>>
                    ELSE <<NoDef>>
              [] lt.l = "ArrayAccess" -> LexExpr(env, lt.identifier) \o LexExpr(env, lt.index)
              [] OTHER -> <<>>
      [] expr.e = "Call" ->
            Concat([i \in DOMAIN expr.arguments |-> LexExpr(env, expr.arguments[i])])
      [] expr.e \in {"BinaryOperation", "Assignment"} ->
            LexExpr(env, expr.left) \o LexExpr(env, expr.right)
      [] expr.e = "ArrayInitializer" ->
            Concat([i \in DOMAIN expr.values |-> LexExpr(env, expr.values[i])])
      [] expr.e \in {"Group", "AddrOf", "Deref"} -> LexExpr(env, expr.expr)

RECURSIVE LexBlock(_, _)
\* a let is in force from its own initializer to the end of its block; a for
\* declares its induction variable for its header and body
LexBlock(env, ss) ==
    IF ss = <<>> THEN <<>>
    ELSE
    LET stmt == Head(ss)
        with == IF stmt.s = "Let" THEN MapInsert(env, stmt.name, stmt.loc) ELSE env
        loop == IF stmt.s = "For"
                THEN MapInsert(env, stmt.init_decl.name, stmt.init_decl.loc) ELSE env
        here ==
            CASE stmt.s = "Let" -> LexExpr(with, stmt.init_exp)
              [] stmt.s = "If" ->
                    LexExpr(env, stmt.condition) \o LexBlock(env, stmt.then_clause)
                        \o (IF stmt.else_clause = <<>> THEN <<>>
                            ELSE LexBlock(env, stmt.else_clause[1]))
              [] stmt.s = "While" ->
                    LexExpr(env, stmt.condition) \o LexBlock(env, stmt.body)
              [] stmt.s = "For" ->
                    LexExpr(loop, stmt.init_decl.init_exp)
                        \o LexExpr(loop, stmt.continue_expression)
                        \o LexExpr(loop, stmt.modify_expression)
                        \o LexBlock(loop, stmt.body)
              [] stmt.s = "Return" -> LexExpr(env, stmt.exp)
              [] stmt.s = "Expression" -> LexExpr(env, stmt.expr)
              [] OTHER -> <<>>
    IN  here \o LexBlock(with, Tail(ss))

RECURSIVE ParamEnv(_, _)
ParamEnv(env, parameters) ==
    IF parameters = <<>> THEN env
    ELSE ParamEnv(MapInsert(env, Head(parameters).name, Head(parameters).loc),
                  Tail(parameters))

RECURSIVE LexGlobals(_, _)
LexGlobals(env, ss) ==
    IF ss = <<>> THEN <<>>
    ELSE
    LET stmt == Head(ss) IN
    CASE stmt.g = "Function" ->
            LexBlock(ParamEnv(env, stmt.parameters), stmt.body) \o LexGlobals(env, Tail(ss))
      [] stmt.g = "Struct" -> LexGlobals(env, Tail(ss))
      [] stmt.g = "Let" ->
            LexBlock(env, <<stmt.let>>)
                \o LexGlobals(MapInsert(env, stmt.let.name, stmt.let.loc), Tail(ss))

\* what each identifier literal refers to under lexical scoping, in source order
LexicalScoping(ss) == LexGlobals(EmptyMap, ss)

\* the loop depth of every break and continue, by passing the depth down
RECURSIVE Jumps(_, _)
Jumps(depth, ss) ==
    IF ss = <<>> THEN <<>>
    ELSE
    LET stmt == Head(ss)
        here ==
            CASE stmt.s \in {"Break", "Continue"} -> <<[jump |-> stmt.s, depth |-> depth]>>
              [] stmt.s = "If" ->
                    Jumps(depth, stmt.then_clause)
                        \o (IF stmt.else_clause = <<>> THEN <<>>
                            ELSE Jumps(depth, stmt.else_clause[1]))
              [] stmt.s \in {"While", "For"} -> Jumps(depth + 1, stmt.body)
              [] OTHER -> <<>>
    IN  here \o Jumps(depth, Tail(ss))

ProgramJumps(ss) ==
    Concat([i \in DOMAIN ss |->
               IF ss[i].g = "Function" THEN Jumps(0, ss[i].body) ELSE <<>>])

\* the first break or continue of the program that no loop encloses
FirstJumpOutsideLoop(ss) ==
    LET js == ProgramJumps(ss)
        out == {i \in DOMAIN js : js[i].depth = 0}
    IN  IF out = {} THEN "none"
        ELSE js[CHOOSE i \in out : \A j \in out : i <= j].jump

Bound == stage = "bound"

BindDone == stage \in {"bound", "failed"}

\* C5: the binder fails with BadBreak (BadContinue) exactly on the first break
\* (continue) of the program that no while or for body encloses, and a program
\* it accepts has every break and continue inside a loop body, at any depth.
C5_BreakContinueOnlyInLoops ==
    BindDone =>
        /\ error = "Ok" => FirstJumpOutsideLoop(stmts) = "none"
        /\ error = "BadBreak" => FirstJumpOutsideLoop(stmts) = "Break"
        /\ error = "BadContinue" => FirstJumpOutsideLoop(stmts) = "Continue"
        /\ FirstJumpOutsideLoop(stmts) = "none" => error \notin {"BadBreak", "BadContinue"}

\* a program the binder accepted with a break or continue two loops deep
C5_Witness ==
    /\ Bound
    /\ \E i \in DOMAIN ProgramJumps(stmts) : ProgramJumps(stmts)[i].depth >= 2

\* the functions the translation unit declares, by name
DeclaredFunctions(ss) == {i \in DOMAIN ss : ss[i].g = "Function"}

\* C6: a call the binder accepts is bound to a declaration of its callee, and
\* the binder fails with UndeclaredFunction only when some call names a function
\* that no global statement of the translation unit declares (before the
\* caller, the caller itself, or after it).
C6_CallsBindAnywhere ==
    LET calls == SlotsOf("Call", stmts)
        Declares(i, name) == stmts[i].name = name
    IN  /\ Bound =>
              \A c \in DOMAIN calls :
                  \E i \in DeclaredFunctions(stmts) :
                      /\ Declares(i, calls[c].name)
                      /\ calls[c].definition = FunctionDef(stmts[i].loc)
        /\ (BindDone /\ error = "UndeclaredFunction") =>
              \E c \in DOMAIN calls :
                  \A i \in DeclaredFunctions(stmts) : ~Declares(i, calls[c].name)

\* C1: when bind_statements returns Ok, every definition slot of the program
\* (identifier literals, also inside an array access, calls, array accesses
\* and the Type nodes that name a struct) is Some.
C1_BindingTotality ==
    Bound => \A i \in DOMAIN DefinitionSlots(stmts) :
                 DefinitionSlots(stmts)[i].definition # NoDef

\* C4: when the binder accepts a program every identifier literal is bound to
\* the declaration lexical scoping gives it (the innermost enclosing let, for
\* variable or parameter of that name; a let of a body that has ended is not
\* among them), and an identifier no declaration covers is rejected with
\* UndeclaredVariable.
C4_ScopeCorrectness ==
    /\ Bound => /\ IdentifierSlots(stmts) = LexicalScoping(stmts)
                /\ NoDef \notin Range(LexicalScoping(stmts))
    /\ (BindDone /\ error = "UndeclaredVariable") => NoDef \in Range(LexicalScoping(stmts))

\* the structs the translation unit declares, by name
DeclaredStructs(ss) == {i \in DOMAIN ss : ss[i].g = "Struct"}

\* C11: a type annotation (of a let, a struct field, a parameter or a return
\* type) that names a struct is bound to the declaration of that struct when
\* the binder accepts the program, and a program with an annotation naming a
\* struct that is not declared is rejected with UndeclaredStruct.
C11_UndeclaredStruct ==
    LET types == SlotsOf("Type", stmts)
        Declares(i, name) == stmts[i].name = name
    IN  /\ Bound =>
              \A t \in DOMAIN types :
                  \E i \in DeclaredStructs(stmts) :
                      /\ Declares(i, types[t].name)
                      /\ types[t].definition = StructDef(stmts[i].loc)
        /\ (BindDone /\ \E t \in DOMAIN types :
                            \A i \in DeclaredStructs(stmts) : ~Declares(i, types[t].name))
              => error = "UndeclaredStruct"


(***************************************************************************)
(* type_system::Type: compatibility and the conversion from a TypeKind.    *)
(***************************************************************************)
SizedIntegers == {"U8", "U16", "U32", "U64", "I8", "I16", "I32", "I64"}

RECURSIVE is_compatible_with(_, _)
is_compatible_with(self, other) ==
    CASE self.t = "Int" /\ other.t \in SizedIntegers \cup {"Int"} -> TRUE
      [] self.t \in SizedIntegers /\ other.t = "Int" -> TRUE
      [] self.t \in SizedIntegers /\ other.t = self.t -> TRUE
      [] self.t \in {"Bool", "Void", "String"} /\ other.t = self.t -> TRUE
      [] self.t = "Ptr" /\ other.t = "Null" -> TRUE
      [] self.t = "Array" /\ other.t = "Array" ->
            self.size = other.size /\ is_compatible_with(self.of, other.of)
      [] self.t = "Ptr" /\ other.t = "Ptr" -> is_compatible_with(self.of, other.of)
      [] OTHER -> FALSE

is_integer(self) == self.t \in SizedIntegers \cup {"Int"}

is_signed(self) == self.t \in {"I8", "I16", "I32", "I64"}

RECURSIVE TypeFrom(_)
\* impl From<ast::TypeKind> for Type
TypeFrom(value) ==
    CASE value.k = "Identifier" -> Struct(value.name, <<>>)
      [] value.k = "Array" -> Array(value.size, TypeFrom(value.array_type.kind))
      [] value.k = "Ptr" -> Ptr(TypeFrom(value.to.kind))
      [] value.k = "Null" -> Null(<<>>)
      [] OTHER -> Ty(value.k)

(***************************************************************************)
(* The types is_compatible_with is applied to: every scalar, a struct, a   *)
(* function, and pointers, arrays and typed nulls nested to MaxTypeDepth   *)
(* over a core of element types.                                           *)
(***************************************************************************)
MaxTypeDepth == 1

Scalars == {Ty(n) : n \in SizedIntegers \cup {"Int", "Float", "String", "Bool", "Void"}}

CoreTypes == {Ty("I32"), Ty("U8"), Ty("Int"), Ty("Void"), Ty("Float"), Null(<<>>)}

RECURSIVE NestedTypes(_)
NestedTypes(depth) ==
    IF depth = 0 THEN CoreTypes
    ELSE LET inner == NestedTypes(depth - 1) IN
         inner \cup {Ptr(t) : t \in inner}
               \cup {Array(size, t) : size \in 1..2, t \in inner}
               \cup {Null(<<t>>) : t \in inner}

Types ==
    Scalars
        \cup {Struct("S", <<>>), Struct("S", <<<<Ty("I32"), "next">>>>),
              Function(<<>>, Ty("Void")), Function(<<<<Ty("I32"), "a">>>>, Ty("I32"))}
        \cup NestedTypes(MaxTypeDepth)

\* self.is_compatible_with(other) and other.is_compatible_with(self)
IsCompatibleWith ==
    /\ stage = "types"
    /\ compat' = <<is_compatible_with(lhs, rhs), is_compatible_with(rhs, lhs)>>
    /\ stage' = "compared"
    /\ UNCHANGED <<stmts, error, binder, lhs, rhs>>
    /\ UNCHANGED <<codegen_vars, driver_vars, scoped_vars>>

InitCompat ==
    /\ lhs \in Types /\ rhs \in Types
    /\ compat = <<FALSE, FALSE>>
    /\ stage = "types"
    /\ stmts = <<>> /\ error = "Ok" /\ binder = Binder_default
    /\ NoCodegen /\ NoDriver /\ NoScopedMap

NextCompat == IsCompatibleWith

SpecCompat == InitCompat /\ [][NextCompat]_vars

Compared == stage = "compared"

\* C8: is_compatible_with holds between every type and itself, and between two
\* types neither of which is Null it holds in one direction exactly when it
\* holds in the other.
C8_ReflexiveAndSymmetric ==
    Compared =>
        /\ lhs = rhs => compat[1]
        /\ (lhs.t # "Null" /\ rhs.t # "Null") => compat[1] = compat[2]

\* C9: a pointer to Void is compatible with every pointer type, and every
\* pointer type is compatible with a pointer to Void.
C9_VoidPointerIsGeneric ==
    (Compared /\ lhs = Ptr(Ty("Void")) /\ rhs.t = "Ptr") => (compat[1] /\ compat[2])


(***************************************************************************)
(* type_system::errors::TypeCheckerError and its PartialEq.  A value is a  *)
(* variant with a payload; the payloads stand for the fields of a variant. *)
(***************************************************************************)
TypeCheckerErrorVariants ==
    {"BadInit", "NonBoolCondition", "BadAssigment", "NotCallable", "BadParameterCount",
     "BadParameter", "IncompatibleOperationType", "ReturnTypeMismatch", "InferenceError",
     "DifferentTypeInArrayInitializer", "NonSubscriptable", "IndexNotInteger",
     "DerefNonPointer"}

TypeCheckerError(variant, payload) == [variant |-> variant, payload |-> payload]

\* impl PartialEq for TypeCheckerError: matches!((self, other), ...) over the
\* pairs of variants the source lists, payloads ignored
TypeCheckerError_eq(self, other) ==
    \/ self.variant = "DerefNonPointer" /\ other.variant = "DerefNonPointer"
    \/ self.variant = "BadInit" /\ other.variant = "BadInit"
    \/ self.variant = "NonBoolCondition" /\ other.variant = "NonBoolCondition"
    \/ self.variant = "BadAssigment" /\ other.variant = "BadAssigment"
    \/ self.variant = "NotCallable" /\ other.variant = "NotCallable"
    \/ self.variant = "BadParameterCount" /\ other.variant = "BadParameterCount"
    \/ self.variant = "BadParameter" /\ other.variant = "BadParameter"
    \/ self.variant = "IncompatibleOperationType"
           /\ other.variant = "IncompatibleOperationType"
    \/ self.variant = "ReturnTypeMismatch" /\ other.variant = "ReturnTypeMismatch"
    \/ self.variant = "InferenceError" /\ other.variant = "InferenceError"
    \/ self.variant = "DifferentTypeInArrayInitializer"
           /\ other.variant = "DifferentTypeInArrayInitializer"
    \/ self.variant = "NonSubscriptable" /\ other.variant = "NonSubscriptable"

\* two payloads per variant, so that equal variants meet with equal and with
\* different payloads
ErrorPayloads == {Ty("I32"), Ty("Bool")}

TypeCheckerErrors ==
    {TypeCheckerError(v, p) : v \in TypeCheckerErrorVariants, p \in ErrorPayloads}

\* self == other and other == self
CompareErrors ==
    /\ stage = "errors"
    /\ compat' = <<TypeCheckerError_eq(lhs, rhs), TypeCheckerError_eq(rhs, lhs)>>
    /\ stage' = "errors_compared"
    /\ UNCHANGED <<stmts, error, binder, lhs, rhs>>
    /\ UNCHANGED <<codegen_vars, driver_vars, scoped_vars>>

InitErrors ==
    /\ lhs \in TypeCheckerErrors /\ rhs \in TypeCheckerErrors
    /\ compat = <<FALSE, FALSE>>
    /\ stage = "errors"
    /\ stmts = <<>> /\ error = "Ok" /\ binder = Binder_default
    /\ NoCodegen /\ NoDriver /\ NoScopedMap

NextErrors == CompareErrors

SpecErrors == InitErrors /\ [][NextErrors]_vars

\* C12: two TypeCheckerError values are equal exactly when they are the same
\* variant, whatever their payloads, for each of the thirteen variants.
C12_ErrorsEqualByVariant ==
    stage = "errors_compared" =>
        /\ compat[1] = (lhs.variant = rhs.variant)
        /\ compat[2] = (lhs.variant = rhs.variant)

(***************************************************************************)
(* type_system::type_setter::ExpressionTypeSetter.  The visitor struct is  *)
(* the type it writes.                                                     *)
(***************************************************************************)
set_type(node, ty) == [node EXCEPT !.ty = ty]

RECURSIVE Setter_visit_expression(_, _)
RECURSIVE Setter_visit_expressions(_, _)

Setter_visit_expressions(new_type, exprs) ==
    IF exprs = <<>> THEN R("Ok", new_type, <<>>)
    ELSE Try(Setter_visit_expression(new_type, Head(exprs)), LAMBDA r :
         Try(Setter_visit_expressions(new_type, Tail(exprs)), LAMBDA rr :
         R("Ok", new_type, <<r.n>> \o rr.n)))

Setter_visit_literal(new_type, expr) ==
    R("Ok", new_type,
      set_type(IF expr.literal_type.l \in {"ArrayAccess", "Null"}
               THEN [expr EXCEPT !.literal_type.ty = new_type]
               ELSE expr,
               new_type))

Setter_visit_binary_operation(new_type, expr) ==
    Try(Setter_visit_expression(new_type, expr.left), LAMBDA l :
    IF expr.right = NoExpr
    THEN R("Ok", new_type, set_type([expr EXCEPT !.left = l.n], new_type))
    ELSE Try(Setter_visit_expression(new_type, expr.right), LAMBDA r :
         R("Ok", new_type, set_type([expr EXCEPT !.left = l.n, !.right = r.n], new_type))))

Setter_visit_array_initializer(new_type, expr) ==
    Try(Setter_visit_expressions(new_type, expr.values), LAMBDA r :
    R("Ok", new_type,
      set_type([expr EXCEPT !.values = r.n], Array(Len(expr.values), new_type))))

\* MutableVisitor::visit_expression with the setter's overrides
Setter_visit_expression(new_type, expr) ==
    CASE expr.e \in {"Group", "AddrOf"} ->
            Try(Setter_visit_expression(new_type, expr.expr), LAMBDA r :
            R("Ok", new_type, [expr EXCEPT !.expr = r.n]))
      [] expr.e = "BinaryOperation" -> Setter_visit_binary_operation(new_type, expr)
      [] expr.e = "Literal" -> Setter_visit_literal(new_type, expr)
      [] expr.e \in {"Call", "Assignment"} -> R("Ok", new_type, set_type(expr, new_type))
      [] expr.e = "ArrayInitializer" -> Setter_visit_array_initializer(new_type, expr)
      [] expr.e = "Deref" -> R("panic", new_type, expr)   \* todo!()

\* visit_expression(expr).expect("Should never fail")
set_type_recusively(new_type, expr) == Setter_visit_expression(new_type, expr)

(***************************************************************************)
(* Declarations reached through a Definition pointer.  decls maps the loc  *)
(* of a let, parameter, function or struct to its ty slot once set; the    *)
(* parts of a FunctionStatement no pass writes are read from the tree.     *)
(***************************************************************************)
DeclType(decls, at) == MapGet(decls, at)

FunctionAt(ast, at) ==
    LET i == CHOOSE i \in DOMAIN ast : ast[i].g = "Function" /\ ast[i].loc = at IN ast[i]

RECURSIVE get_type(_)
\* Expression::get_type: <<>> where the source panics (empty slot, todo!())
get_type(expr) ==
    CASE expr.e = "Group" -> get_type(expr.expr)
      [] expr.e \in {"AddrOf", "Deref", "None"} -> <<>>
      [] OTHER -> IF expr.ty = NoTy THEN <<>> ELSE <<expr.ty>>


(***************************************************************************)
(* type_system::type_checker::TypeChecker.                                 *)
(***************************************************************************)
TypeChecker_default(ast) ==
    [current_type |-> NoTy, current_function |-> NoTy, decls |-> EmptyMap, ast |-> ast]

ArithmeticOps == {"Plus", "Minus", "Multiply", "Divide", "Modulo"}

RECURSIVE TypeChecker_visit_expression(_, _)

\* the type a Definition pointer leads to: <<>> where the source panics
DefinitionType(tc, definition) ==
    IF definition = NoDef THEN <<>> ELSE DeclType(tc.decls, definition.at)

\* Option::expect on current_type after a visit
ExpectType(r, Rest(_)) ==
    Try(r, LAMBDA ok : IF ok.s.current_type = NoTy THEN R("panic", ok.s, ok.n)
                       ELSE Rest(ok))

\* the declared type an array access subscripts: <<>> where the source panics
SubscriptedType(tc, literal) ==
    LET def == DefinitionType(tc, literal.definition) IN
    IF def = <<>> \/ literal.definition.d = "Struct" THEN <<>>
    ELSE IF literal.definition.d # "Function" THEN def
    ELSE IF def[1].t = "Function" THEN <<def[1].return_type>> ELSE <<>>

\* TypeChecker::visit_literal on an array access of element type literal_ty
TypeChecker_visit_array_access(tc, literal, literal_ty) ==
    Try(set_type_recusively(literal_ty, literal.literal_type.identifier), LAMBDA base :
    ExpectType(TypeChecker_visit_expression(tc, literal.literal_type.index), LAMBDA index :
    IF ~is_integer(index.s.current_type) THEN R("IndexNotInteger", index.s, literal)
    ELSE R("Ok", [index.s EXCEPT !.current_type = literal_ty],
           [set_type(literal, literal_ty) EXCEPT
                !.literal_type.ty = literal_ty,
                !.literal_type.identifier = base.n,
                !.literal_type.index = index.n])))

TypeChecker_visit_literal(tc, literal) ==
    LET lt == literal.literal_type
        Typed(ty) == R("Ok", [tc EXCEPT !.current_type = ty], set_type(literal, ty))
    IN
    CASE lt.l \in {"True", "False"} -> Typed(Ty("Bool"))
      [] lt.l = "Integer" -> Typed(Ty("Int"))
      [] lt.l = "Float" -> Typed(Ty("Float"))
      [] lt.l = "String" -> Typed(Ty("String"))
      [] lt.l = "Identifier" ->
            IF DefinitionType(tc, literal.definition) = <<>> THEN R("panic", tc, literal)
            ELSE Typed(DefinitionType(tc, literal.definition)[1])
      [] lt.l = "Null" -> R("Ok", [tc EXCEPT !.current_type = Null(<<>>)], literal)
      [] lt.l = "ArrayAccess" ->
            IF SubscriptedType(tc, literal) = <<>> THEN R("panic", tc, literal)
            ELSE IF SubscriptedType(tc, literal)[1].t # "Array"
            THEN R("NonSubscriptable", tc, literal)
            ELSE TypeChecker_visit_array_access(tc, literal, SubscriptedType(tc, literal)[1].of)

TypeChecker_visit_binary_operation(tc, expr) ==
    IF expr.right # NoExpr THEN
        ExpectType(TypeChecker_visit_expression(tc, expr.left), LAMBDA l :
        ExpectType(TypeChecker_visit_expression(l.s, expr.right), LAMBDA r :
        IF ~is_compatible_with(l.s.current_type, r.s.current_type)
        THEN R("IncompatibleOperationType", r.s, expr)
        ELSE IF expr.op \in ArithmeticOps
        THEN R("Ok", r.s,
               set_type([expr EXCEPT !.left = l.n, !.right = r.n], r.s.current_type))
        ELSE R("Ok", [r.s EXCEPT !.current_type = Ty("Bool")],
               set_type([expr EXCEPT !.left = l.n, !.right = r.n], Ty("Bool")))))
    ELSE
        CASE expr.op = "Minus" ->
                ExpectType(TypeChecker_visit_expression(tc, expr.left), LAMBDA l :
                R("Ok", l.s, set_type([expr EXCEPT !.left = l.n], l.s.current_type)))
          [] expr.op = "Not" ->
                Try(TypeChecker_visit_expression(tc, expr.left), LAMBDA l :
                R("Ok", [l.s EXCEPT !.current_type = Ty("Bool")],
                  set_type([expr EXCEPT !.left = l.n], Ty("Bool"))))
          [] OTHER -> R("panic", tc, expr)

TypeChecker_visit_assignment(tc, expr) ==
    ExpectType(TypeChecker_visit_expression(tc, expr.left), LAMBDA l :
    ExpectType(TypeChecker_visit_expression(l.s, expr.right), LAMBDA r :
    IF ~is_compatible_with(l.s.current_type, r.s.current_type)
    THEN R("BadAssigment", r.s, expr)
    ELSE R("Ok", [r.s EXCEPT !.current_type = l.s.current_type],
           [expr EXCEPT !.left = l.n, !.right = r.n])))

RECURSIVE TypeChecker_visit_arguments(_, _)
\* for param_expr in expr.arguments.iter_mut(): visit it and push current_type;
\* n is the pair <<arguments, parameter_types>>
TypeChecker_visit_arguments(tc, exprs) ==
    IF exprs = <<>> THEN R("Ok", tc, <<<<>>, <<>>>>)
    ELSE ExpectType(TypeChecker_visit_expression(tc, Head(exprs)), LAMBDA r :
         Try(TypeChecker_visit_arguments(r.s, Tail(exprs)), LAMBDA rr :
         R("Ok", rr.s, <<<<r.n>> \o rr.n[1], <<r.s.current_type>> \o rr.n[2]>>)))

\* the first parameter an argument type is not compatible with: "Ok",
\* "BadParameter", or "panic" on a parameter without a type
CheckParameters(tc, parameter_types, parameters) ==
    LET Expected(i) == DeclType(tc.decls, parameters[i].loc)
        Bad(i) == \/ Expected(i) = <<>>
                  \/ ~is_compatible_with(parameter_types[i], Expected(i)[1])
        bad == {i \in DOMAIN parameter_types : Bad(i)}
        first == CHOOSE i \in bad : \A j \in bad : i <= j
    IN  IF bad = {} THEN "Ok"
        ELSE IF Expected(first) = <<>> THEN "panic" ELSE "BadParameter"

\* TypeChecker::visit_call once the callee is known to be the function def
TypeChecker_visit_call_of(tc, expr, def) ==
    IF Len(expr.arguments) # Len(def.parameters) THEN R("BadParameterCount", tc, expr)
    ELSE Try(TypeChecker_visit_arguments(tc, expr.arguments), LAMBDA args :
         Try(R(CheckParameters(args.s, args.n[2], def.parameters), args.s, expr),
             LAMBDA checked :
         R("Ok", [args.s EXCEPT !.current_type = TypeFrom(def.return_type)],
           [expr EXCEPT !.arguments = args.n[1]])))

TypeChecker_visit_call(tc, expr) ==
    IF expr.definition = NoDef THEN R("panic", tc, expr)
    ELSE IF expr.definition.d # "Function" THEN R("NotCallable", tc, expr)
    ELSE TypeChecker_visit_call_of(tc, expr, FunctionAt(tc.ast, expr.definition.at))

RECURSIVE TypeChecker_visit_values(_, _, _)
\* for (i, exp) in expr.values.iter_mut().enumerate(): visit, compare to first
TypeChecker_visit_values(tc, exprs, first_type) ==
    IF exprs = <<>> THEN R("Ok", tc, <<>>)
    ELSE ExpectType(TypeChecker_visit_expression(tc, Head(exprs)), LAMBDA r :
         IF r.s.current_type # first_type
         THEN R("DifferentTypeInArrayInitializer", r.s, exprs)
         ELSE Try(TypeChecker_visit_values(r.s, Tail(exprs), first_type), LAMBDA rr :
              R("Ok", rr.s, <<r.n>> \o rr.n)))

\* the first value is visited for first_type, then every value in turn
TypeChecker_visit_array_initializer(tc, expr) ==
    IF expr.values = <<>> THEN R("panic", tc, expr)   \* todo!("Handle empty array init")
    ELSE
    ExpectType(TypeChecker_visit_expression(tc, expr.values[1]), LAMBDA first :
    Try(TypeChecker_visit_values(first.s, <<first.n>> \o Tail(expr.values),
                                 first.s.current_type),
        LAMBDA rest :
    R("Ok", [rest.s EXCEPT !.current_type =
                               Array(Len(expr.values), first.s.current_type)],
      set_type([expr EXCEPT !.values = rest.n],
               Array(Len(expr.values), first.s.current_type)))))

TypeChecker_visit_addrof(tc, expr) ==
    ExpectType(TypeChecker_visit_expression(tc, expr.expr), LAMBDA r :
    R("Ok", [r.s EXCEPT !.current_type = Ptr(@)], [expr EXCEPT !.expr = r.n]))

\* MutableVisitor::visit_expression with the TypeChecker's overrides
TypeChecker_visit_expression(tc, expr) ==
    CASE expr.e = "Group" ->
            Try(TypeChecker_visit_expression(tc, expr.expr), LAMBDA r :
            R("Ok", r.s, [expr EXCEPT !.expr = r.n]))
      [] expr.e = "BinaryOperation" -> TypeChecker_visit_binary_operation(tc, expr)
      [] expr.e = "Literal" -> TypeChecker_visit_literal(tc, expr)
      [] expr.e = "Call" -> TypeChecker_visit_call(tc, expr)
      [] expr.e = "Assignment" -> TypeChecker_visit_assignment(tc, expr)
      [] expr.e = "ArrayInitializer" -> TypeChecker_visit_array_initializer(tc, expr)
      [] expr.e = "AddrOf" -> TypeChecker_visit_addrof(tc, expr)
      [] expr.e = "Deref" -> R("panic", tc, expr)   \* todo!()

\* visit the expression, then require current_type to be Bool
check_bool_expression(tc, expr) ==
    ExpectType(TypeChecker_visit_expression(tc, expr), LAMBDA r :
    IF r.s.current_type # Ty("Bool") THEN R("NonBoolCondition", r.s, r.n) ELSE r)

\* LetStatement::set_type: the slot of the node, seen also through pointers
TypeChecker_set_let_type(tc, stmt, ty) ==
    R("Ok", [tc EXCEPT !.decls = MapInsert(@, stmt.loc, ty)], set_type(stmt, ty))

\* TypeChecker::visit_let, Some(ty) arm: init is the visit of the initializer
TypeChecker_visit_let_annotated(stmt, init, real_type) ==
    IF ~is_compatible_with(real_type, init.s.current_type) THEN R("BadInit", init.s, stmt)
    ELSE Try(IF init.s.current_type.t = "Null"
             THEN set_type_recusively(Null(<<real_type>>), init.n)
             ELSE R("Ok", NoTy, init.n),
             LAMBDA set :
         TypeChecker_set_let_type([init.s EXCEPT !.current_type = real_type],
                                  [stmt EXCEPT !.init_exp = set.n], real_type))

TypeChecker_visit_let(tc, stmt) ==
    IF stmt.init_exp = NoExpr THEN R("panic", tc, stmt)
    ELSE
    ExpectType(TypeChecker_visit_expression(tc, stmt.init_exp), LAMBDA init :
    IF stmt.declaration_type # NoKind
    THEN TypeChecker_visit_let_annotated(stmt, init, TypeFrom(stmt.declaration_type))
    ELSE IF init.s.current_type.t = "Null" THEN R("InferenceError", init.s, stmt)
    ELSE TypeChecker_set_let_type(init.s, [stmt EXCEPT !.init_exp = init.n],
                                  init.s.current_type))

RECURSIVE TypeChecker_visit_statement_kind(_, _)
RECURSIVE TypeChecker_visit_statements(_, _)

\* for stmt in &mut stmts.statements { self.visit_statement_kind(..)?; }
TypeChecker_visit_statements(tc, ss) ==
    IF ss = <<>> THEN R("Ok", tc, <<>>)
    ELSE Try(TypeChecker_visit_statement_kind(tc, Head(ss)), LAMBDA r :
         Try(TypeChecker_visit_statements(r.s, Tail(ss)), LAMBDA rr :
         R("Ok", rr.s, <<r.n>> \o rr.n)))

TypeChecker_visit_if(tc, stmt) ==
    Try(check_bool_expression(tc, stmt.condition), LAMBDA c :
    Try(TypeChecker_visit_statements(c.s, stmt.then_clause), LAMBDA t :
    IF stmt.else_clause = <<>>
    THEN R("Ok", t.s, [stmt EXCEPT !.condition = c.n, !.then_clause = t.n])
    ELSE Try(TypeChecker_visit_statements(t.s, stmt.else_clause[1]), LAMBDA el :
         R("Ok", el.s, [stmt EXCEPT !.condition = c.n, !.then_clause = t.n,
                                    !.else_clause = <<el.n>>]))))

TypeChecker_visit_while(tc, stmt) ==
    Try(check_bool_expression(tc, stmt.condition), LAMBDA c :
    Try(TypeChecker_visit_statements(c.s, stmt.body), LAMBDA body :
    R("Ok", body.s, [stmt EXCEPT !.condition = c.n, !.body = body.n])))

TypeChecker_visit_for(tc, stmt) ==
    Try(TypeChecker_visit_let(tc, stmt.init_decl), LAMBDA init :
    Try(check_bool_expression(init.s, stmt.continue_expression), LAMBDA c :
    Try(TypeChecker_visit_expression(c.s, stmt.modify_expression), LAMBDA m :
    Try(TypeChecker_visit_statements(m.s, stmt.body), LAMBDA body :
    R("Ok", body.s,
      [stmt EXCEPT !.init_decl = init.n, !.continue_expression = c.n,
                   !.modify_expression = m.n, !.body = body.n])))))

TypeChecker_visit_return(tc, stmt) ==
    ExpectType(IF stmt.exp # NoExpr THEN TypeChecker_visit_expression(tc, stmt.exp)
               ELSE R("Ok", [tc EXCEPT !.current_type = Ty("Void")], stmt.exp),
               LAMBDA r :
    IF r.s.current_function = NoTy THEN R("panic", r.s, stmt)
    ELSE IF ~is_compatible_with(r.s.current_function.return_type, r.s.current_type)
    THEN R("ReturnTypeMismatch", r.s, stmt)
    ELSE R("Ok", r.s, [stmt EXCEPT !.exp = r.n]))

\* MutableVisitor::visit_statement_kind with the TypeChecker's overrides
TypeChecker_visit_statement_kind(tc, stmt) ==
    CASE stmt.s = "If" -> TypeChecker_visit_if(tc, stmt)
      [] stmt.s = "Let" -> TypeChecker_visit_let(tc, stmt)
      [] stmt.s = "While" -> TypeChecker_visit_while(tc, stmt)
      [] stmt.s = "For" -> TypeChecker_visit_for(tc, stmt)
      [] stmt.s = "Return" -> TypeChecker_visit_return(tc, stmt)
      [] stmt.s \in {"Break", "Continue"} -> R("Ok", tc, stmt)
      [] stmt.s = "Expression" ->
            Try(TypeChecker_visit_expression(tc, stmt.expr), LAMBDA r :
            R("Ok", r.s, [stmt EXCEPT !.expr = r.n]))

RECURSIVE TypeChecker_set_parameters(_, _)
\* for parameter in stmt.parameters.iter_mut(): set_type(Type::from(hint))
TypeChecker_set_parameters(tc, parameters) ==
    IF parameters = <<>> THEN R("Ok", tc, <<>>)
    ELSE IF Head(parameters).declaration_type = NoKind
    THEN R("panic", tc, parameters)   \* expect("Parameter has no type hint!")
    ELSE Try(TypeChecker_set_let_type(tc, Head(parameters),
                                      TypeFrom(Head(parameters).declaration_type)),
             LAMBDA r :
         Try(TypeChecker_set_parameters(r.s, Tail(parameters)), LAMBDA rr :
         R("Ok", rr.s, <<r.n>> \o rr.n)))

\* TypeChecker::visit_function once the parameters are typed
TypeChecker_visit_typed_function(tc, stmt, function_type) ==
    IF stmt.is_extern
    THEN R("Ok", [tc EXCEPT !.current_function = NoTy,
                            !.decls = MapInsert(@, stmt.loc, function_type)],
           set_type(stmt, function_type))
    ELSE Try(TypeChecker_visit_statements(
                 [tc EXCEPT !.current_function = function_type,
                            !.decls = MapInsert(@, stmt.loc, function_type)],
                 stmt.body),
             LAMBDA body :
         R("Ok", [body.s EXCEPT !.current_function = NoTy],
           set_type([stmt EXCEPT !.body = body.n], function_type)))

TypeChecker_visit_function(tc, stmt) ==
    Try(TypeChecker_set_parameters(tc, stmt.parameters), LAMBDA ps :
    TypeChecker_visit_typed_function(
        ps.s, [stmt EXCEPT !.parameters = ps.n],
        Function([i \in DOMAIN ps.n |-> <<ps.n[i].ty, ps.n[i].name>>],
                 TypeFrom(stmt.return_type))))

TypeChecker_visit_struct(tc, stmt) ==
    LET ty == Struct(stmt.name,
                     [i \in DOMAIN stmt.fields |->
                         <<TypeFrom(stmt.fields[i].kind), stmt.fields[i].name>>])
    IN  R("Ok", [tc EXCEPT !.decls = MapInsert(@, stmt.loc, ty)], set_type(stmt, ty))

TypeChecker_visit_global_statement(tc, stmt) ==
    CASE stmt.g = "Function" -> TypeChecker_visit_function(tc, stmt)
      [] stmt.g = "Struct" -> TypeChecker_visit_struct(tc, stmt)
      [] stmt.g = "Let" ->
            Try(TypeChecker_visit_let(tc, stmt.let), LAMBDA r :
            R("Ok", r.s, [stmt EXCEPT !.let = r.n]))

RECURSIVE check_statements(_, _)
\* visit each global statement, clearing current_type and current_function
\* after it
check_statements(tc, ss) ==
    IF ss = <<>> THEN R("Ok", tc, <<>>)
    ELSE Try(TypeChecker_visit_global_statement(tc, Head(ss)), LAMBDA r :
         Try(check_statements(
                 [r.s EXCEPT !.current_type = NoTy, !.current_function = NoTy], Tail(ss)),
             LAMBDA rr :
         R("Ok", rr.s, <<r.n>> \o rr.n)))

(***************************************************************************)
(* type_system::inference::IntegerInference.                               *)
(***************************************************************************)
IntegerInference_default(decls, ast) ==
    [current_function |-> NoTy, is_int |-> FALSE, decls |-> decls, ast |-> ast]

RECURSIVE Inference_visit_expression(_, _)

\* set_type_recusively on a node the inference holds; the struct is kept
Inference_set(inf, new_type, expr) ==
    Try(set_type_recusively(new_type, expr), LAMBDA r : R("Ok", inf, r.n))

\* IntegerInference::visit_literal, second half: an Int index becomes I64
Inference_visit_index(inf, expr) ==
    IF get_type(expr.literal_type.index) = <<>> THEN R("panic", inf, expr)
    ELSE IF get_type(expr.literal_type.index)[1] # Ty("Int") THEN R("Ok", inf, expr)
    ELSE Try(Inference_set(inf, Ty("I64"), expr.literal_type.index), LAMBDA r :
         R("Ok", inf, [expr EXCEPT !.literal_type.index = r.n]))

Inference_visit_literal(inf, expr) ==
    IF expr.literal_type.l \notin {"Integer", "ArrayAccess"}
    THEN R("Ok", [inf EXCEPT !.is_int = FALSE], expr)
    ELSE IF expr.ty = NoTy THEN R("panic", inf, expr)
    ELSE IF expr.literal_type.l = "Integer"
    THEN R("Ok", [inf EXCEPT !.is_int = @ \/ expr.ty = Ty("Int")], expr)
    ELSE Inference_visit_index([inf EXCEPT !.is_int = @ \/ expr.ty = Ty("Int")], expr)

\* IntegerInference::visit_binary_operation after both operands were visited:
\* l and r are their visits
Inference_match_operands(expr, l, r) ==
    CASE l.s.is_int /\ r.s.is_int ->
            Try(Inference_set(r.s, Ty("I64"), l.n), LAMBDA sl :
            Try(Inference_set(r.s, Ty("I64"), r.n), LAMBDA sr :
            R("Ok", r.s, [expr EXCEPT !.left = sl.n, !.right = sr.n])))
      [] l.s.is_int /\ ~r.s.is_int ->
            IF get_type(r.n) = <<>> THEN R("panic", r.s, expr)
            ELSE Try(Inference_set(r.s, get_type(r.n)[1], l.n), LAMBDA sl :
                 R("Ok", r.s, [expr EXCEPT !.left = sl.n, !.right = r.n]))
      [] ~l.s.is_int /\ r.s.is_int ->
            Try(Inference_visit_expression(r.s, r.n), LAMBDA again :
            IF ~again.s.is_int
            THEN R("Ok", again.s, [expr EXCEPT !.left = l.n, !.right = again.n])
            ELSE IF get_type(l.n) = <<>> THEN R("panic", again.s, expr)
            ELSE Try(Inference_set(again.s, get_type(l.n)[1], again.n), LAMBDA sr :
                 R("Ok", again.s, [expr EXCEPT !.left = l.n, !.right = sr.n])))
      [] OTHER -> R("Ok", r.s, [expr EXCEPT !.left = l.n, !.right = r.n])

Inference_visit_binary_operation(inf, expr) ==
    Try(Inference_visit_expression(inf, expr.left), LAMBDA l :
    IF expr.right = NoExpr THEN R("Ok", l.s, [expr EXCEPT !.left = l.n])
    ELSE Try(Inference_visit_expression(l.s, expr.right), LAMBDA r :
         Inference_match_operands(expr, l, r)))

Inference_visit_assignment(inf, expr) ==
    IF expr.left.e # "Literal" THEN R("panic", inf, expr)   \* unreachable!()
    ELSE IF expr.left.ty = NoTy THEN R("panic", inf, expr)
    ELSE Try(Inference_visit_expression(inf, expr.right), LAMBDA r :
         IF ~r.s.is_int THEN R("Ok", r.s, [expr EXCEPT !.right = r.n])
         ELSE Try(Inference_set(r.s, expr.left.ty, r.n), LAMBDA set :
              R("Ok", r.s, [expr EXCEPT !.right = set.n])))

\* IntegerInference::visit_call, loop body after argument i was visited with
\* is_int set: the argument takes the type of parameter i
Inference_set_argument(r, i, def) ==
    IF i > Len(def.parameters) THEN R("panic", r.s, r.n)
    ELSE IF DeclType(r.s.decls, def.parameters[i].loc) = <<>> THEN R("panic", r.s, r.n)
    ELSE IF ~is_compatible_with(DeclType(r.s.decls, def.parameters[i].loc)[1], Ty("Int"))
    THEN R("BadParameter", r.s, r.n)
    ELSE Try(Inference_set(r.s, DeclType(r.s.decls, def.parameters[i].loc)[1], r.n),
             LAMBDA set : R("Ok", [r.s EXCEPT !.is_int = FALSE], set.n))

RECURSIVE Inference_visit_arguments(_, _, _, _)
\* for i in 0..expr.arguments.len()
Inference_visit_arguments(inf, args, i, def) ==
    IF i > Len(args) THEN R("Ok", inf, args)
    ELSE Try(Inference_visit_expression(inf, args[i]), LAMBDA r :
         Try(IF r.s.is_int THEN Inference_set_argument(r, i, def) ELSE r, LAMBDA a :
         Inference_visit_arguments(a.s, [args EXCEPT ![i] = a.n], i + 1, def)))

Inference_visit_call(inf, expr) ==
    IF expr.definition = NoDef THEN R("panic", inf, expr)
    ELSE IF expr.definition.d # "Function" THEN R("NotCallable", inf, expr)
    ELSE Try(Inference_visit_arguments(
                 inf, expr.arguments, 1, FunctionAt(inf.ast, expr.definition.at)),
             LAMBDA r : R("Ok", r.s, [expr EXCEPT !.arguments = r.n]))

RECURSIVE AnyInteger(_)
\* values.iter().any(|e| e.get_type().is_integer()): "panic" when a value
\* without a type is reached before an integer one
AnyInteger(values) ==
    IF values = <<>> THEN "false"
    ELSE IF get_type(Head(values)) = <<>> THEN "panic"
    ELSE IF is_integer(get_type(Head(values))[1]) THEN "true"
    ELSE AnyInteger(Tail(values))

Inference_visit_array_initializer(inf, expr) ==
    IF AnyInteger(expr.values) = "panic" THEN R("panic", inf, expr)
    ELSE R("Ok", [inf EXCEPT !.is_int = (AnyInteger(expr.values) = "true")], expr)

\* MutableVisitor::visit_expression with the inference's overrides
Inference_visit_expression(inf, expr) ==
    CASE expr.e \in {"Group", "AddrOf"} ->
            Try(Inference_visit_expression(inf, expr.expr), LAMBDA r :
            R("Ok", r.s, [expr EXCEPT !.expr = r.n]))
      [] expr.e = "BinaryOperation" -> Inference_visit_binary_operation(inf, expr)
      [] expr.e = "Literal" -> Inference_visit_literal(inf, expr)
      [] expr.e = "Call" -> Inference_visit_call(inf, expr)
      [] expr.e = "Assignment" -> Inference_visit_assignment(inf, expr)
      [] expr.e = "ArrayInitializer" -> Inference_visit_array_initializer(inf, expr)
      [] expr.e = "Deref" -> R("panic", inf, expr)   \* todo!()

Inference_visit_let(inf, stmt) ==
    IF stmt.init_exp = NoExpr THEN R("panic", inf, stmt)
    ELSE
    Try(Inference_visit_expression(inf, stmt.init_exp), LAMBDA init :
    IF ~init.s.is_int THEN R("Ok", init.s, [stmt EXCEPT !.init_exp = init.n])
    ELSE IF stmt.declaration_type = NoKind THEN R("InferenceError", init.s, stmt)
    ELSE IF stmt.ty = NoTy THEN R("panic", init.s, stmt)
    ELSE Try(Inference_set(init.s, IF stmt.ty.t = "Array" THEN stmt.ty.of ELSE stmt.ty,
                           init.n),
             LAMBDA set : R("Ok", init.s, [stmt EXCEPT !.init_exp = set.n])))

Inference_visit_return(inf, stmt) ==
    IF stmt.exp = NoExpr THEN R("Ok", inf, stmt)
    ELSE
    Try(Inference_visit_expression(inf, stmt.exp), LAMBDA r :
    IF ~r.s.is_int THEN R("Ok", r.s, [stmt EXCEPT !.exp = r.n])
    ELSE IF r.s.current_function = NoTy \/ r.s.current_function.t # "Function"
    THEN R("panic", r.s, stmt)
    ELSE Try(Inference_set(r.s, r.s.current_function.return_type, r.n), LAMBDA set :
         R("Ok", [r.s EXCEPT !.is_int = FALSE], [stmt EXCEPT !.exp = set.n])))

RECURSIVE Inference_visit_statement_kind(_, _)
RECURSIVE Inference_visit_statements(_, _)

Inference_visit_statements(inf, ss) ==
    IF ss = <<>> THEN R("Ok", inf, <<>>)
    ELSE Try(Inference_visit_statement_kind(inf, Head(ss)), LAMBDA r :
         Try(Inference_visit_statements(r.s, Tail(ss)), LAMBDA rr :
         R("Ok", rr.s, <<r.n>> \o rr.n)))

\* MutableVisitor::visit_if (default)
Inference_visit_if(inf, stmt) ==
    Try(Inference_visit_expression(inf, stmt.condition), LAMBDA c :
    Try(Inference_visit_statements(c.s, stmt.then_clause), LAMBDA t :
    IF stmt.else_clause = <<>>
    THEN R("Ok", t.s, [stmt EXCEPT !.condition = c.n, !.then_clause = t.n])
    ELSE Try(Inference_visit_statements(t.s, stmt.else_clause[1]), LAMBDA el :
         R("Ok", el.s, [stmt EXCEPT !.condition = c.n, !.then_clause = t.n,
                                    !.else_clause = <<el.n>>]))))

\* MutableVisitor::visit_while (default)
Inference_visit_while(inf, stmt) ==
    Try(Inference_visit_expression(inf, stmt.condition), LAMBDA c :
    Try(Inference_visit_statements(c.s, stmt.body), LAMBDA body :
    R("Ok", body.s, [stmt EXCEPT !.condition = c.n, !.body = body.n])))

\* MutableVisitor::visit_for (default): let, modify, continue, body
Inference_visit_for(inf, stmt) ==
    Try(Inference_visit_let(inf, stmt.init_decl), LAMBDA init :
    Try(Inference_visit_expression(init.s, stmt.modify_expression), LAMBDA m :
    Try(Inference_visit_expression(m.s, stmt.continue_expression), LAMBDA c :
    Try(Inference_visit_statements(c.s, stmt.body), LAMBDA body :
    R("Ok", body.s,
      [stmt EXCEPT !.init_decl = init.n, !.modify_expression = m.n,
                   !.continue_expression = c.n, !.body = body.n])))))

\* MutableVisitor::visit_statement_kind with the inference's overrides
Inference_visit_statement_kind(inf, stmt) ==
    CASE stmt.s = "If" -> Inference_visit_if(inf, stmt)
      [] stmt.s = "Let" -> Inference_visit_let(inf, stmt)
      [] stmt.s = "While" -> Inference_visit_while(inf, stmt)
      [] stmt.s = "For" -> Inference_visit_for(inf, stmt)
      [] stmt.s = "Return" -> Inference_visit_return(inf, stmt)
      [] stmt.s \in {"Break", "Continue"} -> R("Ok", inf, stmt)
      [] stmt.s = "Expression" ->
            Try(Inference_visit_expression(inf, stmt.expr), LAMBDA r :
            R("Ok", r.s, [stmt EXCEPT !.expr = r.n]))

\* MutableVisitor::visit_function (default): the body, when there is one
Inference_visit_function(inf, stmt) ==
    IF stmt.is_extern THEN R("Ok", inf, stmt)
    ELSE Try(Inference_visit_statements(inf, stmt.body), LAMBDA body :
         R("Ok", body.s, [stmt EXCEPT !.body = body.n]))

Inference_visit_global_statement(inf, stmt) ==
    CASE stmt.g = "Function" ->
            IF stmt.ty = NoTy THEN R("panic", inf, stmt)
            ELSE Try(Inference_visit_function(
                         [inf EXCEPT !.current_function = stmt.ty], stmt),
                     LAMBDA r : R("Ok", [r.s EXCEPT !.current_function = NoTy], r.n))
      [] stmt.g = "Struct" -> R("Ok", inf, stmt)
      [] stmt.g = "Let" ->
            Try(Inference_visit_let(inf, stmt.let), LAMBDA r :
            R("Ok", r.s, [stmt EXCEPT !.let = r.n]))

RECURSIVE infer_statements(_, _)
infer_statements(inf, ss) ==
    IF ss = <<>> THEN R("Ok", inf, <<>>)
    ELSE Try(Inference_visit_global_statement(inf, Head(ss)), LAMBDA r :
         Try(infer_statements(r.s, Tail(ss)), LAMBDA rr :
         R("Ok", rr.s, <<r.n>> \o rr.n)))

(***************************************************************************)
(* desugar::for_statement.                                                 *)
(***************************************************************************)
build_while(for_stmt) ==
    <<for_stmt.init_decl,
      While(for_stmt.continue_expression,
            Append(for_stmt.body, ExprStmt(for_stmt.modify_expression)))>>

RECURSIVE desugar_function_body(_)
\* only the statements of the function body itself are matched
desugar_function_body(fn_statements) ==
    IF fn_statements = <<>> THEN <<>>
    ELSE (IF Head(fn_statements).s = "For" THEN build_while(Head(fn_statements))
          ELSE <<Head(fn_statements)>>)
             \o desugar_function_body(Tail(fn_statements))

desugar_for(global_stmts) ==
    [i \in DOMAIN global_stmts |->
        IF global_stmts[i].g = "Function" /\ ~global_stmts[i].is_extern
        THEN [global_stmts[i] EXCEPT !.body = desugar_function_body(@)]
        ELSE global_stmts[i]]

desugar_ast(global_statements) == desugar_for(global_statements)


(***************************************************************************)
(* Reading the trees: every statement and every expression node of a       *)
(* program, in source order, and the ty slots a pass left on them.         *)
(***************************************************************************)
RECURSIVE SubExpressions(_)
\* an expression node and the expression nodes below it
SubExpressions(expr) ==
    CASE expr.e = "None" -> <<>>
      [] expr.e = "Literal" ->
            <<expr>> \o (IF expr.literal_type.l = "ArrayAccess"
                         THEN SubExpressions(expr.literal_type.identifier)
                                  \o SubExpressions(expr.literal_type.index)
                         ELSE <<>>)
      [] expr.e = "Call" ->
            <<expr>> \o Concat([i \in DOMAIN expr.arguments |->
                                   SubExpressions(expr.arguments[i])])
      [] expr.e \in {"BinaryOperation", "Assignment"} ->
            <<expr>> \o SubExpressions(expr.left) \o SubExpressions(expr.right)
      [] expr.e = "ArrayInitializer" ->
            <<expr>> \o Concat([i \in DOMAIN expr.values |-> SubExpressions(expr.values[i])])
      [] expr.e \in {"Group", "AddrOf", "Deref"} -> <<expr>> \o SubExpressions(expr.expr)

RECURSIVE SubStatements(_)
\* a statement and the statements nested in it; a for header's let counts
SubStatements(stmt) ==
    LET Block(ss) == Concat([i \in DOMAIN ss |-> SubStatements(ss[i])]) IN
    CASE stmt.s = "If" ->
            <<stmt>> \o Block(stmt.then_clause)
                \o (IF stmt.else_clause = <<>> THEN <<>> ELSE Block(stmt.else_clause[1]))
      [] stmt.s = "While" -> <<stmt>> \o Block(stmt.body)
      [] stmt.s = "For" -> <<stmt, stmt.init_decl>> \o Block(stmt.body)
      [] OTHER -> <<stmt>>

\* the expressions a statement holds itself (not those of nested statements)
OwnExpressions(stmt) ==
    CASE stmt.s = "Let" -> SubExpressions(stmt.init_exp)
      [] stmt.s \in {"If", "While"} -> SubExpressions(stmt.condition)
      [] stmt.s = "For" ->
            SubExpressions(stmt.continue_expression)
                \o SubExpressions(stmt.modify_expression)
      [] stmt.s = "Return" -> SubExpressions(stmt.exp)
      [] stmt.s = "Expression" -> SubExpressions(stmt.expr)
      [] OTHER -> <<>>

ProgramStatements(ss) ==
    Concat([i \in DOMAIN ss |->
               CASE ss[i].g = "Function" ->
                        Concat([j \in DOMAIN ss[i].body |-> SubStatements(ss[i].body[j])])
                 [] ss[i].g = "Let" -> <<ss[i].let>>
                 [] OTHER -> <<>>])

ProgramExpressions(ss) ==
    LET sts == ProgramStatements(ss) IN
    Concat([i \in DOMAIN sts |-> OwnExpressions(sts[i])])

\* the ty slots of let, parameter, function and struct declarations, by loc
DeclTypes(ss) ==
    LET sts == ProgramStatements(ss)
        IsLet(st) == st.s = "Let"
        IsDecl(g) == g.g # "Let"
        Params(i) == IF ss[i].g = "Function" THEN ss[i].parameters ELSE <<>>
        decls == SelectSeq(sts, IsLet) \o Concat([i \in DOMAIN ss |-> Params(i)])
                     \o SelectSeq(ss, IsDecl)
        typed == {i \in DOMAIN decls : decls[i].ty # NoTy}
    IN  [at \in {decls[i].loc : i \in typed} |->
            decls[CHOOSE i \in typed : decls[i].loc = at].ty]

(***************************************************************************)
(* bubblec::objects::build_object after parsing: bind, type check, infer,  *)
(* desugar.  A pass that fails ends the build with its error.              *)
(***************************************************************************)
\* type_system::run_type_checker: check_statements, then infer_statements on
\* the tree the type checker annotated
run_type_checker(ss) ==
    Try(check_statements(TypeChecker_default(ss), ss), LAMBDA checked :
    Try(infer_statements(IntegerInference_default(DeclTypes(checked.n), checked.n),
                         checked.n),
        LAMBDA inferred : R("Ok", "typed", inferred.n)))

\* the tree the type checker left, when it succeeded
Checked(ss) ==
    Try(check_statements(TypeChecker_default(ss), ss), LAMBDA checked :
    R("Ok", "checked", checked.n))

RunTypeChecker ==
    /\ stage = "bound"
    /\ error' = run_type_checker(stmts).err
    /\ stage' = CASE Checked(stmts).err # "Ok" -> "check_failed"
                  [] error' # "Ok" -> "infer_failed"
                  [] OTHER -> "typed"
    /\ stmts' = CASE stage' = "check_failed" -> stmts
                  [] stage' = "infer_failed" -> Checked(stmts).n
                  [] OTHER -> run_type_checker(stmts).n
    /\ UNCHANGED <<binder, lhs, rhs, compat>>
    /\ UNCHANGED <<codegen_vars, driver_vars, scoped_vars>>

DesugarAst ==
    /\ stage = "typed"
    /\ stmts' = desugar_ast(stmts)
    /\ stage' = "desugared"
    /\ UNCHANGED <<error, binder, lhs, rhs, compat>>
    /\ UNCHANGED <<codegen_vars, driver_vars, scoped_vars>>


(***************************************************************************)
(* codegen::locals_collector::Collector: a Visitor that pushes every let   *)
(* it meets to the list of the function it is in.                          *)
(***************************************************************************)
Collector_default == [function_symbols |-> EmptyMap, current_function |-> <<>>]

StackVariable(name, kind) == [name |-> name, kind |-> kind]

\* Collector::visit_let; get_type panics on a let without a type
Collector_visit_let(c, stmt) ==
    IF c.current_function = <<>> THEN R("Ok", c, stmt)
    ELSE IF stmt.ty = NoTy THEN R("panic", c, stmt)
    ELSE R("Ok",
           [c EXCEPT !.function_symbols[c.current_function[1]] =
                         Append(@, StackVariable(stmt.name, stmt.ty))],
           stmt)

\* Visitor::visit_expression and below: no override of the Collector is
\* reached, and a Deref is todo!()
Collector_visit_expression(c, expr) ==
    IF \E i \in DOMAIN SubExpressions(expr) : SubExpressions(expr)[i].e = "Deref"
    THEN R("panic", c, expr)
    ELSE R("Ok", c, expr)

RECURSIVE Collector_visit_statement_kind(_, _)
RECURSIVE Collector_visit_statements_vec(_, _)

\* Visitor::visit_statements_vec
Collector_visit_statements_vec(c, ss) ==
    IF ss = <<>> THEN R("Ok", c, ss)
    ELSE Try(Collector_visit_statement_kind(c, Head(ss)), LAMBDA r :
         Collector_visit_statements_vec(r.s, Tail(ss)))

\* Visitor::visit_statement_kind with the defaults of visit_if, visit_while,
\* visit_for and visit_return
Collector_visit_statement_kind(c, stmt) ==
    CASE stmt.s = "Let" -> Collector_visit_let(c, stmt)
      [] stmt.s = "If" ->
            Try(Collector_visit_expression(c, stmt.condition), LAMBDA r :
            Try(Collector_visit_statements_vec(r.s, stmt.then_clause), LAMBDA t :
            IF stmt.else_clause = <<>> THEN t
            ELSE Collector_visit_statements_vec(t.s, stmt.else_clause[1])))
      [] stmt.s = "While" ->
            Try(Collector_visit_expression(c, stmt.condition), LAMBDA r :
            Collector_visit_statements_vec(r.s, stmt.body))
      [] stmt.s = "For" ->
            Try(Collector_visit_let(c, stmt.init_decl), LAMBDA l :
            Try(Collector_visit_expression(l.s, stmt.modify_expression), LAMBDA m :
            Try(Collector_visit_expression(m.s, stmt.continue_expression), LAMBDA r :
            Collector_visit_statements_vec(r.s, stmt.body))))
      [] stmt.s = "Return" -> Collector_visit_expression(c, stmt.exp)
      [] stmt.s = "Expression" -> Collector_visit_expression(c, stmt.expr)
      [] OTHER -> R("Ok", c, stmt)

\* Collector::visit_function: an empty list under the function's name, then
\* the body
Collector_visit_function(c, stmt) ==
    IF stmt.is_extern THEN R("Ok", c, stmt)
    ELSE IF stmt.ty.t # "Function" THEN R("panic", c, stmt)
    ELSE Try(Collector_visit_statements_vec(
                 [function_symbols |-> MapInsert(c.function_symbols, stmt.name, <<>>),
                  current_function |-> <<stmt.name>>],
                 stmt.body),
             LAMBDA r : R("Ok", [r.s EXCEPT !.current_function = <<>>], stmt))

RECURSIVE dump_global_statements(_, _)
\* Collector::dump_global_statements: n is the SymbolsMap returned
dump_global_statements(c, ss) ==
    IF ss = <<>> THEN R("Ok", c, c.function_symbols)
    ELSE IF Head(ss).g = "Function"
         THEN Try(Collector_visit_function(c, Head(ss)), LAMBDA r :
              dump_global_statements(r.s, Tail(ss)))
         ELSE dump_global_statements(c, Tail(ss))

(***************************************************************************)
(* codegen::llvm_ir::Translator.  Translation either panics or emits the   *)
(* blocks of each function; Run_* below follow the branches it emits.      *)
(***************************************************************************)
RECURSIVE IsPointerType(_)
\* to_llvm_type(ty).into_pointer_type() succeeds: a Null needs its concrete
\* type (expect("Should have a concrete type")), an untyped node panics in
\* get_type
IsPointerType(ty) ==
    CASE ty.t \in {"Ptr", "String"} -> TRUE
      [] ty.t = "Null" -> ty.concrete_type # <<>> /\ IsPointerType(ty.concrete_type[1])
      [] OTHER -> FALSE

\* visit_expression on every node below expr: Deref is todo!(), an integer
\* literal needs a sized type (to_llvm_type: Type::Int => unreachable!()), an
\* identifier is loaded with its type, a null is built from the pointer type
\* recorded on it, and the left side of an assignment is an identifier
\* (anything else is unreachable!())
Translator_visit_expression(expr) ==
    IF \A i \in DOMAIN SubExpressions(expr) :
           LET e == SubExpressions(expr)[i] IN
           /\ e.e # "Deref"
           /\ (e.e = "Literal" /\ e.literal_type.l \in {"Integer", "Identifier"})
                  => e.ty.t \notin {"None", "Int"}
           /\ (e.e = "Literal" /\ e.literal_type.l = "Null")
                  => IsPointerType(e.literal_type.ty)
           /\ e.e = "Assignment"
                  => e.left.e = "Literal" /\ e.left.literal_type.l = "Identifier"
    THEN "Ok" ELSE "panic"

\* visit_statement_kind on a statement and the statements nested in it:
\* visit_break is todo!(), visit_for is unreachable!(), visit_continue is the
\* Visitor's default and emits nothing
Translator_visit_statement_kind(stmt) ==
    IF \A i \in DOMAIN SubStatements(stmt) :
           LET st == SubStatements(stmt)[i] IN
           /\ st.s \notin {"Break", "For"}
           /\ \A j \in DOMAIN OwnExpressions(st) :
                  Translator_visit_expression(OwnExpressions(st)[j]) = "Ok"
    THEN "Ok" ELSE "panic"

\* Translator::visit_function: the function needs its type; an extern
\* declaration stops after add_function
Translator_visit_function(stmt) ==
    IF stmt.ty.t # "Function" THEN "panic"
    ELSE IF stmt.is_extern THEN "Ok"
    ELSE IF \A i \in DOMAIN stmt.body : Translator_visit_statement_kind(stmt.body[i]) = "Ok"
         THEN "Ok" ELSE "panic"

\* Translator::translate_statements up to Module::verify: visit_struct is
\* todo!(), and a global let finds no variable to store to
translate_statements(ss) ==
    IF \A i \in DOMAIN ss :
           ss[i].g = "Function" /\ Translator_visit_function(ss[i]) = "Ok"
    THEN "Ok" ELSE "panic"

(***************************************************************************)
(* What the Translator builds.  A function is its basic blocks in the      *)
(* order they were appended, a block is its instructions in order.  An     *)
(* instruction keeps the stack slot it reads or writes (the number of the  *)
(* alloca, 0 for none), the location of the declaration or statement it    *)
(* was built for, and the name of the variable or callee.                  *)
(***************************************************************************)
Inst(op, slot, at, name) == [op |-> op, slot |-> slot, at |-> at, name |-> name]

\* Translator::new: no variables, no function under construction
Translator_default ==
    [functions |-> <<>>, blocks |-> <<>>, position |-> 0, variables |-> EmptyMap,
     allocas |-> 0]

\* a build_* call of the builder: the instruction goes to the end of the
\* block the builder is positioned at
build(tr, inst) == [tr EXCEPT !.blocks[tr.position].code = Append(@, inst)]

\* context.append_basic_block(parent, name)
append_basic_block(tr, name) ==
    [tr EXCEPT !.blocks = Append(@, [name |-> name, code |-> <<>>])]

\* builder.position_at_end(block)
position_at_end(tr, block) == [tr EXCEPT !.position = block]

\* Translator::create_entry_block_alloca: the alloca is built before the
\* first instruction of the entry block
create_entry_block_alloca(tr, name) ==
    [tr EXCEPT !.blocks[1].code = <<Inst("alloca", tr.allocas + 1, 0, name)>> \o @,
               !.allocas = @ + 1]

\* self.variables.get(name)
variables_get(tr, name) == IF name \in DOMAIN tr.variables THEN tr.variables[name] ELSE 0

IsIdentifier(expr) == expr.e = "Literal" /\ expr.literal_type.l = "Identifier"

\* the ? after a visit of the Translator: its error type is Infallible, so
\* the rest always runs, on the translator as the visit left it
Visited(tr, Rest(_)) == IF tr.allocas >= 0 THEN Rest(tr) ELSE tr

RECURSIVE Translator_emit_expression(_, _)
RECURSIVE Translator_emit_expressions(_, _)

\* for exp in values { self.visit_expression(exp)?; }
Translator_emit_expressions(tr, exprs) ==
    IF exprs = <<>> THEN tr
    ELSE Visited(Translator_emit_expression(tr, Head(exprs)), LAMBDA value :
         Translator_emit_expressions(value, Tail(exprs)))

\* Translator::visit_literal: constants build nothing, an identifier is
\* loaded from its slot, an array access visits its base, visits it again
\* when it is not an identifier, visits the index and builds a gep and a load
Translator_emit_literal(tr, expr) ==
    LET lit == expr.literal_type IN
    CASE lit.l = "Identifier" ->
            build(tr, Inst("load", variables_get(tr, lit.name), expr.definition.at, lit.name))
      [] lit.l = "ArrayAccess" ->
            LET slot == IF IsIdentifier(lit.identifier)
                        THEN variables_get(tr, lit.identifier.literal_type.name) ELSE 0
            IN  Visited(Translator_emit_expression(tr, lit.identifier), LAMBDA base :
                Visited(IF IsIdentifier(lit.identifier) THEN base
                        ELSE Translator_emit_expression(base, lit.identifier), LAMBDA ptr :
                Visited(Translator_emit_expression(ptr, lit.index), LAMBDA index :
                build(build(index, Inst("gep", slot, expr.definition.at, "")),
                      Inst("load_element", 0, 0, "")))))
      [] OTHER -> tr

\* Translator::visit_call: the arguments, then build_call
Translator_emit_call(tr, expr) ==
    Visited(Translator_emit_expressions(tr, expr.arguments), LAMBDA arguments :
    build(arguments, Inst("call", 0, 0, expr.callee)))

\* Translator::visit_binary_operation: left, right, the operation
Translator_emit_binary_operation(tr, expr) ==
    Visited(Translator_emit_expression(tr, expr.left), LAMBDA left :
    Visited(Translator_emit_expression(left, expr.right), LAMBDA right :
    build(right, Inst("operation", 0, 0, expr.op))))

\* Translator::visit_assignment: the right side, then a store to the
\* variable named on the left
Translator_emit_assignment(tr, expr) ==
    Visited(Translator_emit_expression(tr, expr.right), LAMBDA right :
    build(right, Inst("store", variables_get(tr, expr.left.literal_type.name),
                      expr.left.definition.at, expr.left.literal_type.name)))

\* Visitor::visit_expression with the Translator's overrides
Translator_emit_expression(tr, expr) ==
    CASE expr.e = "Literal" -> Translator_emit_literal(tr, expr)
      [] expr.e = "Call" -> Translator_emit_call(tr, expr)
      [] expr.e = "BinaryOperation" -> Translator_emit_binary_operation(tr, expr)
      [] expr.e = "Assignment" -> Translator_emit_assignment(tr, expr)
      [] expr.e = "ArrayInitializer" -> Translator_emit_expressions(tr, expr.values)
      [] expr.e \in {"Group", "AddrOf"} -> Translator_emit_expression(tr, expr.expr)
      [] OTHER -> tr

RECURSIVE Translator_emit_array_init(_, _, _)
\* the loop of visit_let over the values of an array initializer: the value
\* is visited, then a gep on the variable and a store
Translator_emit_array_init(tr, stmt, values) ==
    IF values = <<>> THEN tr
    ELSE Visited(Translator_emit_expression(tr, Head(values)), LAMBDA value :
         Visited(build(build(value,
                             Inst("gep", variables_get(tr, stmt.name), stmt.loc, stmt.name)),
                       Inst("store_element", 0, stmt.loc, stmt.name)), LAMBDA stored :
         Translator_emit_array_init(stored, stmt, Tail(values))))

\* Translator::visit_let: the initializer is visited; an array variable then
\* goes through the values of the initializer, any other is stored to
Translator_emit_let(tr, stmt) ==
    Visited(Translator_emit_expression(tr, stmt.init_exp), LAMBDA init :
    IF stmt.ty.t = "Array"
    THEN Translator_emit_array_init(init, stmt, stmt.init_exp.values)
    ELSE build(init, Inst("store", variables_get(tr, stmt.name), stmt.loc, stmt.name)))

RECURSIVE Translator_emit_statement_kind(_, _)
RECURSIVE Translator_emit_statements(_, _)

\* Visitor::visit_statements
Translator_emit_statements(tr, ss) ==
    IF ss = <<>> THEN tr
    ELSE Visited(Translator_emit_statement_kind(tr, Head(ss)), LAMBDA done :
         Translator_emit_statements(done, Tail(ss)))

\* Translator::visit_if
Translator_emit_if(tr, stmt) ==
    LET then_bb == Len(tr.blocks) + 1
        else_bb == Len(tr.blocks) + 2
        merge_bb == Len(tr.blocks) + 3
    IN  Visited(Translator_emit_expression(tr, stmt.condition), LAMBDA value :
        Visited(build(append_basic_block(append_basic_block(append_basic_block(
                          build(value, Inst("icmp", 0, 0, "if_condition")),
                          "then"), "else"), "merge"),
                      Inst("br_cond", 0, 0, "then")), LAMBDA branched :
        Visited(Translator_emit_statements(position_at_end(branched, then_bb),
                                           stmt.then_clause), LAMBDA then_clause :
        Visited(position_at_end(build(then_clause, Inst("br", 0, 0, "merge")), else_bb),
                LAMBDA at_else :
        Visited(IF stmt.else_clause = <<>> THEN at_else
                ELSE Translator_emit_statements(at_else, stmt.else_clause[1]),
                LAMBDA else_clause :
        position_at_end(build(else_clause, Inst("br", 0, 0, "merge")), merge_bb))))))

\* Translator::visit_while
Translator_emit_while(tr, stmt) ==
    LET condition_block == Len(tr.blocks) + 1
        while_block == Len(tr.blocks) + 2
        after_while_block == Len(tr.blocks) + 3
        appended == append_basic_block(append_basic_block(append_basic_block(
                        tr, "while_test"), "while_body"), "after_while")
    IN  Visited(position_at_end(build(appended, Inst("br", 0, 0, "while_test")),
                                condition_block), LAMBDA entered :
        Visited(Translator_emit_expression(entered, stmt.condition), LAMBDA value :
        Visited(build(build(value, Inst("icmp", 0, 0, "if_condition")),
                      Inst("br_cond", 0, 0, "while_body")), LAMBDA branched :
        Visited(Translator_emit_statements(position_at_end(branched, while_block),
                                           stmt.body), LAMBDA body :
        position_at_end(build(body, Inst("br", 0, 0, "while_test")),
                        after_while_block)))))

\* Translator::visit_return
Translator_emit_return(tr, stmt) ==
    Visited(Translator_emit_expression(tr, stmt.exp), LAMBDA value :
    build(value, Inst("ret", 0, 0, "")))

\* Visitor::visit_statement_kind with the Translator's overrides
Translator_emit_statement_kind(tr, stmt) ==
    CASE stmt.s = "Let" -> Translator_emit_let(tr, stmt)
      [] stmt.s = "If" -> Translator_emit_if(tr, stmt)
      [] stmt.s = "While" -> Translator_emit_while(tr, stmt)
      [] stmt.s = "Return" -> Translator_emit_return(tr, stmt)
      [] stmt.s = "Expression" -> Translator_emit_expression(tr, stmt.expr)
      [] OTHER -> tr

RECURSIVE Translator_emit_parameters(_, _)
\* visit_function, the loop over get_param_iter: an alloca, a store of the
\* argument, and the alloca entered under the parameter's name
Translator_emit_parameters(tr, parameters) ==
    IF parameters = <<>> THEN tr
    ELSE LET arg == Head(parameters) IN
         Visited(create_entry_block_alloca(tr, arg.name), LAMBDA alloca :
         Visited(build(alloca, Inst("store", alloca.allocas, arg.loc, arg.name)),
                 LAMBDA stored :
         Translator_emit_parameters(
             [stored EXCEPT !.variables = MapInsert(@, arg.name, alloca.allocas)],
             Tail(parameters))))

RECURSIVE Translator_emit_locals(_, _)
\* visit_function, the loop over the frame table of the function: an alloca
\* for every collected let, entered under the let's name
Translator_emit_locals(tr, frame) ==
    IF frame = <<>> THEN tr
    ELSE Visited(create_entry_block_alloca(tr, Head(frame).name), LAMBDA alloca :
         Translator_emit_locals(
             [alloca EXCEPT !.variables = MapInsert(@, Head(frame).name, alloca.allocas)],
             Tail(frame)))

\* Translator::visit_function: an extern declaration has no block; a body
\* starts in an entry block named as the function
Translator_emit_function(tr, frame_table, stmt) ==
    IF stmt.is_extern
    THEN [tr EXCEPT !.functions = Append(@, [name |-> stmt.name, blocks |-> <<>>])]
    ELSE Visited(position_at_end(
                     append_basic_block([tr EXCEPT !.blocks = <<>>], stmt.name), 1),
                 LAMBDA entry :
         Visited(Translator_emit_parameters(entry, stmt.parameters), LAMBDA parameters :
         Visited(Translator_emit_locals(parameters, frame_table[stmt.name]), LAMBDA locals :
         Visited(Translator_emit_statements(locals, stmt.body), LAMBDA body :
         [body EXCEPT !.functions =
                          Append(@, [name |-> stmt.name, blocks |-> body.blocks])]))))

RECURSIVE Translator_emit_module(_, _, _)
\* Translator::translate_statements: the functions of the module, in order
Translator_emit_module(tr, frame_table, ss) ==
    IF ss = <<>> THEN tr.functions
    ELSE Visited(Translator_emit_function(tr, frame_table, Head(ss)), LAMBDA built :
         Translator_emit_module(built, frame_table, Tail(ss)))

\* codegen::build_module: collect the locals, translate, verify.  A module
\* the verifier rejects is printed and translate_statements still returns Ok.
BuildModule ==
    /\ stage = "desugared"
    /\ \E valid \in {"valid", "invalid"} :
        LET collected == dump_global_statements(Collector_default, stmts)
            built == collected.err = "Ok" /\ translate_statements(stmts) = "Ok"
        IN  /\ built \/ valid = "valid"
            /\ symbols' = IF collected.err = "Ok" THEN collected.n ELSE symbols
            /\ verified' = IF built THEN valid ELSE verified
            /\ module' = IF built
                         THEN Translator_emit_module(Translator_default, collected.n, stmts)
                         ELSE module
            /\ stage' = IF built THEN "built" ELSE "panic"
    /\ UNCHANGED <<stmts, error, binder, lhs, rhs, compat, trips, trace, source>>
    /\ UNCHANGED <<driver_vars, scoped_vars>>

(***************************************************************************)
(* Running the blocks the Translator emits for a function body.  The       *)
(* machine is [i, trace]: the value of the one variable the programs       *)
(* assign, and the calls, stores and loop tests executed so far.  bound is *)
(* the value of the right operand of a loop test.                          *)
(***************************************************************************)
MaxTrips == 2

Machine(i, effects) == [i |-> i, trace |-> effects]

Emit(m, event) == [m EXCEPT !.trace = Append(@, event)]

\* visit_call ends in build_call, visit_assignment in build_store (the
\* programs assign i = i + 1 only); other expressions have no effect
Run_expression(expr, m) ==
    CASE expr.e = "Call" -> R("Ok", Emit(m, expr.callee), <<>>)
      [] expr.e = "Assignment" -> R("Ok", Emit([m EXCEPT !.i = @ + 1], "assign"), <<>>)
      [] OTHER -> R("Ok", m, <<>>)

\* the value of a condition: the literal true, or i < bound
Run_condition(expr, m, bound) ==
    IF expr.e = "BinaryOperation" THEN m.i < bound ELSE TRUE

RECURSIVE Run_statements(_, _, _)
RECURSIVE Run_statement_kind(_, _, _)
RECURSIVE Run_while(_, _, _)

\* visit_statements: the statements one after the other in the same block
Run_statements(ss, m, bound) ==
    IF ss = <<>> THEN R("Ok", m, <<>>)
    ELSE Try(Run_statement_kind(Head(ss), m, bound), LAMBDA r :
         Run_statements(Tail(ss), r.s, bound))

\* Translator::visit_while: while_test evaluates the condition and branches to
\* while_body or after_while; while_body ends with a branch to while_test.
\* A run of more than MaxTrips iterations is cut as "diverges".
Run_while(stmt, m, bound) ==
    IF m.i > MaxTrips THEN R("diverges", m, <<>>)
    ELSE IF Run_condition(stmt.condition, m, bound)
         THEN Try(Run_statements(stmt.body, Emit(m, "cond"), bound), LAMBDA r :
              IF r.s.i = m.i THEN R("diverges", r.s, <<>>)
              ELSE Run_while(stmt, r.s, bound))
         ELSE R("Ok", Emit(m, "cond"), <<>>)

\* the blocks of one statement: visit_let stores the initial value, visit_if
\* branches to then or else and both branch to merge, visit_continue (the
\* Visitor's default) emitted nothing
Run_statement_kind(stmt, m, bound) ==
    CASE stmt.s = "Let" ->
            Try(Run_expression(stmt.init_exp, m), LAMBDA r :
            R("Ok", Emit([r.s EXCEPT !.i = 0], "let"), <<>>))
      [] stmt.s = "Expression" -> Run_expression(stmt.expr, m)
      [] stmt.s = "If" ->
            IF Run_condition(stmt.condition, m, bound)
            THEN Run_statements(stmt.then_clause, m, bound)
            ELSE IF stmt.else_clause = <<>> THEN R("Ok", m, <<>>)
                 ELSE Run_statements(stmt.else_clause[1], m, bound)
      [] stmt.s = "While" -> Run_while(stmt, m, bound)
      [] OTHER -> R("Ok", m, <<>>)

\* the last function of the module (main) is run from its entry block
RunMain ==
    /\ stage = "built"
    /\ LET main == stmts[Len(stmts)]
           r == Run_statements(main.body, Machine(0, <<>>), trips)
       IN  /\ trace' = r.s.trace
           /\ stage' = IF r.err = "Ok" THEN "ran" ELSE r.err
    /\ UNCHANGED <<stmts, error, binder, lhs, rhs, compat, symbols, trips, verified, source,
                   module>>
    /\ UNCHANGED <<driver_vars, scoped_vars>>

(***************************************************************************)
(* Family "typed": an extern function f(): i32 and a function main whose   *)
(* body nests annotated and unannotated lets, integer expression           *)
(* statements and for loops.                                               *)
(***************************************************************************)
MaxTypedSize == 2

TypedFamily ==
    [lets |-> {[name |-> "a", kind |-> Kind("I32"), init |-> Integer],
               [name |-> "b", kind |-> NoKind, init |-> Call("f", <<>>)],
               [name |-> "c", kind |-> NoKind, init |-> Integer]},
     exprs |-> {Integer, Call("f", <<>>)},
     jumps |-> {},
     conds |-> {True},
     fors |-> {[name |-> "i", kind |-> Kind("I32"), init |-> Integer,
                cont |-> BinaryOperation(Identifier("i"), "Less", Integer),
                modify |-> Assignment(Identifier("i"),
                                      BinaryOperation(Identifier("i"), "Plus", Integer))]}]

ExternF == FunctionStatement(1, "f", <<>>, Kind("I32"), TRUE, <<>>)

TypedPrograms ==
    {<<ExternF, FunctionStatement(2, "main", <<>>, Kind("Void"), FALSE, body)>>
        : body \in Bodies(TypedFamily, 3, MaxTypedSize)}

(***************************************************************************)
(* Family "init": main(p: ptr i32) { let v [: K] = e; } for the kinds and  *)
(* initializers below.                                                     *)
(***************************************************************************)
InitKinds ==
    {NoKind, Kind("I32"), Kind("Bool"), Kind("Float"), KPtr(Kind("I32")), KPtr(Kind("Void")),
     KArray(2, Kind("I32"))}

InitExpressions ==
    {Integer, True, Float, NullLit, Identifier("p"), AddrOf(Identifier("p")),
     Call("f", <<>>), Group(Integer),
     BinaryOperation(Integer, "Plus", Integer), BinaryOperation(Integer, "Less", Integer),
     BinaryOperation(Integer, "Minus", NoExpr),
     ArrayInitializer(<<Integer, Integer>>), ArrayInitializer(<<NullLit, NullLit>>)}

InitPrograms ==
    {<<ExternF,
       FunctionStatement(2, "main", <<Param(3, "p", KPtr(Kind("I32")))>>, Kind("Void"), FALSE,
                         <<Let(4, "v", k, e)>>)>>
        : k \in InitKinds, e \in InitExpressions}

(***************************************************************************)
(* Family "argument": extern g(r: P): i32 and main(q: Q) whose body is one *)
(* call of g with up to MaxArguments arguments.                            *)
(***************************************************************************)
MaxArguments == 2

ParameterKinds == {Kind("I32"), Kind("Bool"), KPtr(Kind("I32")), KPtr(Kind("Void"))}

ArgumentExpressions == {Integer, True, NullLit, Identifier("q")}

RECURSIVE Arguments(_)
Arguments(count) ==
    IF count = 0 THEN {<<>>}
    ELSE {<<a>> \o rest : a \in ArgumentExpressions, rest \in Arguments(count - 1)}

ArgumentPrograms ==
    {<<FunctionStatement(1, "g", <<Param(2, "r", pk)>>, Kind("I32"), TRUE, <<>>),
       FunctionStatement(3, "main", <<Param(4, "q", qk)>>, Kind("Void"), FALSE,
                         <<ExprStmt(Call("g", args))>>)>>
        : pk \in ParameterKinds, qk \in ParameterKinds,
          args \in UNION {Arguments(count) : count \in 0..MaxArguments}}

Programs == TypedPrograms \cup InitPrograms \cup ArgumentPrograms

Init ==
    /\ stmts \in Programs
    /\ stage = "parsed"
    /\ error = "Ok"
    /\ binder = Binder_default
    /\ lhs = NoTy /\ rhs = NoTy /\ compat = <<FALSE, FALSE>>
    /\ NoCodegen /\ NoDriver /\ NoScopedMap

Next == BindStatements \/ RunTypeChecker \/ DesugarAst \/ BuildModule

Spec == Init /\ [][Next]_vars


(***************************************************************************)
(* What the type checker and the desugarer leave on the tree.              *)
(***************************************************************************)
Typed == stage = "typed"

TypeCheckerDone == stage \in {"typed", "check_failed", "infer_failed"}

Desugared == stage = "desugared"

RECURSIVE ContainsInt(_)
\* the literal type Int, alone or inside a pointer, array or typed null
ContainsInt(ty) ==
    CASE ty.t = "Int" -> TRUE
      [] ty.t \in {"Ptr", "Array"} -> ContainsInt(ty.of)
      [] ty.t = "Null" -> ty.concrete_type # <<>> /\ ContainsInt(ty.concrete_type[1])
      [] OTHER -> FALSE

\* the expression nodes that have a ty slot (a group, an addrof and a deref
\* have none)
TypedExpressions(ss) ==
    LET HasSlot(expr) == expr.e \notin {"Group", "AddrOf", "Deref"}
    IN  SelectSeq(ProgramExpressions(ss), HasSlot)

\* the let statements without a type annotation
UnannotatedLets(ss) ==
    LET Unannotated(st) == st.s = "Let" /\ st.declaration_type = NoKind
    IN  SelectSeq(ProgramStatements(ss), Unannotated)

\* C2: when the type checker (type checking, then integer inference) has
\* succeeded, every expression node holds a type in its ty slot and no type
\* on an expression or a let is, or contains, the literal type Int.
C2_TypingTotality ==
    Typed =>
        /\ \A i \in DOMAIN TypedExpressions(stmts) :
               /\ TypedExpressions(stmts)[i].ty # NoTy
               /\ ~ContainsInt(TypedExpressions(stmts)[i].ty)
        /\ \A i \in DOMAIN ProgramStatements(stmts) :
               ProgramStatements(stmts)[i].s = "Let" =>
                   ~ContainsInt(ProgramStatements(stmts)[i].ty)

\* C3: after desugaring no for statement is left anywhere in the tree, at
\* any depth of nesting.
C3_NoForAfterDesugar ==
    Desugared =>
        \A i \in DOMAIN ProgramStatements(stmts) : ProgramStatements(stmts)[i].s # "For"

\* a program of the family "argument": g(r: P) and main(q: Q) { g(...); }
IsArgumentProgram(ss) == Len(ss) = 2 /\ ss[1].name = "g"

\* the program that initializes a let of the parameter's declared type from
\* the argument, in place of the call
LetInPlaceOfCall(ss) ==
    [ss EXCEPT ![2].body =
        <<Let(5, "v", ss[1].parameters[1].declaration_type, ss[2].body[1].expr.arguments[1])>>]

\* C7: the type checker accepts a call with one argument exactly when it
\* accepts the let that initializes a variable of the parameter's declared
\* type from that argument (so null is accepted for a pointer parameter); a
\* rejected argument fails with BadParameter and a wrong number of arguments
\* with BadParameterCount.
C7_CallLikeLetInit ==
    (TypeCheckerDone /\ IsArgumentProgram(stmts)) =>
        IF Len(stmts[2].body[1].expr.arguments) # Len(stmts[1].parameters)
        THEN stage = "check_failed" /\ error = "BadParameterCount"
        ELSE /\ stage # "check_failed" <=> Checked(LetInPlaceOfCall(stmts)).err = "Ok"
             /\ stage = "check_failed" => error = "BadParameter"

\* C10: integer inference fails with InferenceError only on a program with an
\* unannotated let whose initializer the type checker typed Int, and it
\* succeeds only when no unannotated let has such an initializer, whatever
\* statements come before the let.
C10_InferenceErrorIffInt ==
    LET lets == UnannotatedLets(stmts)
        StillInt(st) == get_type(st.init_exp) = <<Ty("Int")>>
    IN  /\ (stage = "infer_failed" /\ error = "InferenceError") =>
               \E i \in DOMAIN lets : StillInt(lets[i])
        /\ Typed => \A i \in DOMAIN lets : ~StillInt(lets[i])


(***************************************************************************)
(* What build_module leaves: the locals of each function.                  *)
(***************************************************************************)
Built == stage = "built"

\* the parameters of a function in declaration order, then the lets of its
\* body in depth-first order, as stack variables
ParametersThenLets(function) ==
    LET nested == Concat([i \in DOMAIN function.body |-> SubStatements(function.body[i])])
        IsLet(st) == st.s = "Let"
        lets == SelectSeq(nested, IsLet)
    IN  [i \in DOMAIN function.parameters |->
            StackVariable(function.parameters[i].name, function.parameters[i].ty)]
        \o [i \in DOMAIN lets |-> StackVariable(lets[i].name, lets[i].ty)]

\* C16: the locals collector maps the name of each non-extern function to its
\* parameters in declaration order followed by the lets of its body in
\* depth-first order, and has no entry for an extern function.
C16_ParametersThenLets ==
    Built =>
        /\ DOMAIN symbols = {stmts[i].name : i \in {j \in DeclaredFunctions(stmts) :
                                                       ~stmts[j].is_extern}}
        /\ \A i \in DeclaredFunctions(stmts) :
               ~stmts[i].is_extern => symbols[stmts[i].name] = ParametersThenLets(stmts[i])


(***************************************************************************)
(* Family "loop": an extern function f(): i32 and a function main whose    *)
(* body is one for loop over i from 0 to the bound; the body of the loop   *)
(* nests calls of f, continue, break and if true.                          *)
(***************************************************************************)
MaxLoopSize == 3

LoopFamily ==
    [lets |-> {}, exprs |-> {Call("f", <<>>)}, jumps |-> {Continue, Break},
     conds |-> {True}, fors |-> {}]

LoopBodies ==
    {body \in Bodies(LoopFamily, 4, MaxLoopSize) :
        \A i \in DOMAIN body : \A j \in DOMAIN SubStatements(body[i]) :
            SubStatements(body[i])[j].s # "While"}

LoopPrograms ==
    {<<ExternF,
       FunctionStatement(2, "main", <<>>, Kind("Void"), FALSE,
           <<For(Let(3, "i", Kind("I32"), Integer),
                 BinaryOperation(Identifier("i"), "Less", Integer),
                 Assignment(Identifier("i"), BinaryOperation(Identifier("i"), "Plus", Integer)),
                 body)>>)>>
        : body \in LoopBodies}

InitLoop ==
    /\ stmts \in LoopPrograms
    /\ trips \in 0..MaxTrips
    /\ source = stmts
    /\ stage = "parsed"
    /\ error = "Ok"
    /\ binder = Binder_default
    /\ lhs = NoTy /\ rhs = NoTy /\ compat = <<FALSE, FALSE>>
    /\ symbols = EmptyMap /\ trace = <<>> /\ verified = "none"
    /\ module = <<>>
    /\ NoDriver /\ NoScopedMap

NextLoop == BindStatements \/ RunTypeChecker \/ DesugarAst \/ BuildModule \/ RunMain

SpecLoop == InitLoop /\ [][NextLoop]_vars

Ran == stage = "ran"

RECURSIVE ForBody(_)
\* one iteration of a loop body: its calls in order up to the first continue
\* (every condition of the family is true); done says a continue was met
ForBody(ss) ==
    IF ss = <<>> THEN [trace |-> <<>>, done |-> FALSE]
    ELSE
    LET stmt == Head(ss)
        here == CASE stmt.s = "Expression" -> [trace |-> <<stmt.expr.callee>>, done |-> FALSE]
                  [] stmt.s = "Continue" -> [trace |-> <<>>, done |-> TRUE]
                  [] stmt.s = "If" -> ForBody(stmt.then_clause)
        rest == ForBody(Tail(ss))
    IN  IF here.done THEN here
        ELSE [trace |-> here.trace \o rest.trace, done |-> rest.done]

RECURSIVE ForLoop(_, _)
\* the iterations of a for loop that runs count times: test, body, step, and
\* the failing test at the end
ForLoop(for_stmt, count) ==
    IF count = 0 THEN <<"cond">>
    ELSE <<"cond">> \o ForBody(for_stmt.body).trace \o <<"assign">>
             \o ForLoop(for_stmt, count - 1)

\* the for loop of the program as parsed
SourceFor == source[Len(source)].body[1]

\* C13: running the let and while the desugarer made of a for loop has the
\* side effects of the for loop: the init once, then test, body and step in
\* turn, the step after every iteration, also one that executed continue.
C13_DesugarKeepsEffects ==
    Ran => trace = <<"let">> \o ForLoop(SourceFor, trips)


(***************************************************************************)
(* type_system::rename::Renamer.  A name is a string; the new name of a    *)
(* symbol is format!("{}_{}", symbol, symbol_count).                       *)
(***************************************************************************)
Renamer_default == [symbol_count |-> 0, variables |-> ScopedMap_default]

\* Renamer::new_symbol: s is the renamer after the call, n the new name
new_symbol(rn, symbol) ==
    R("Ok", [rn EXCEPT !.symbol_count = @ + 1],
      symbol \o "_" \o ToString(rn.symbol_count + 1))

\* Renamer::visit_literal: only a bare identifier is looked at
Renamer_visit_literal(rn, expr) ==
    IF expr.literal_type.l = "Identifier"
    THEN LET decl == find_symbol(rn.variables, expr.literal_type.name) IN
         IF decl = <<>> THEN R("panic", rn, expr)   \* unreachable!("Undeclared symbol in renamer!")
         ELSE R("Ok", rn, [set_definition(expr, LocalVariable(decl[1].loc))
                              EXCEPT !.literal_type.name = decl[1].name])
    ELSE R("Ok", rn, expr)

RECURSIVE Renamer_visit_expression(_, _)
RECURSIVE Renamer_visit_expressions(_, _)
RECURSIVE Renamer_visit_statement_kind(_, _)
RECURSIVE Renamer_visit_statements(_, _)

Renamer_visit_expressions(rn, exprs) ==
    IF exprs = <<>> THEN R("Ok", rn, <<>>)
    ELSE Try(Renamer_visit_expression(rn, Head(exprs)), LAMBDA r :
         Try(Renamer_visit_expressions(r.s, Tail(exprs)), LAMBDA rr :
         R("Ok", rr.s, <<r.n>> \o rr.n)))

\* MutableVisitor::visit_expression (default) with the Renamer's visit_literal
Renamer_visit_expression(rn, expr) ==
    CASE expr.e \in {"Group", "AddrOf"} ->
            Try(Renamer_visit_expression(rn, expr.expr), LAMBDA r :
            R("Ok", r.s, [expr EXCEPT !.expr = r.n]))
      [] expr.e = "BinaryOperation" ->
            Try(Renamer_visit_expression(rn, expr.left), LAMBDA l :
            IF expr.right = NoExpr THEN R("Ok", l.s, [expr EXCEPT !.left = l.n])
            ELSE Try(Renamer_visit_expression(l.s, expr.right), LAMBDA r :
                 R("Ok", r.s, [expr EXCEPT !.left = l.n, !.right = r.n])))
      [] expr.e = "Literal" -> Renamer_visit_literal(rn, expr)
      [] expr.e = "Call" ->
            Try(Renamer_visit_expressions(rn, expr.arguments), LAMBDA r :
            R("Ok", r.s, [expr EXCEPT !.arguments = r.n]))
      [] expr.e = "Assignment" ->
            Try(Renamer_visit_expression(rn, expr.left), LAMBDA l :
            Try(Renamer_visit_expression(l.s, expr.right), LAMBDA r :
            R("Ok", r.s, [expr EXCEPT !.left = l.n, !.right = r.n])))
      [] expr.e = "ArrayInitializer" ->
            Try(Renamer_visit_expressions(rn, expr.values), LAMBDA r :
            R("Ok", r.s, [expr EXCEPT !.values = r.n]))
      [] expr.e = "Deref" -> R("panic", rn, expr)   \* todo!()

\* Renamer::visit_let: the declaration is entered under its previous name
Renamer_visit_let(rn, stmt) ==
    Try(new_symbol(rn, stmt.name), LAMBDA name :
    Try(Renamer_visit_expression(name.s, stmt.init_exp), LAMBDA init :
    LET renamed == [stmt EXCEPT !.name = name.n, !.init_exp = init.n] IN
    R("Ok", [init.s EXCEPT !.variables = insert_symbol(@, stmt.name, renamed)], renamed)))

\* new_scope(); visit_statements(block); delete_scope()
Renamer_visit_scope(rn, ss) ==
    Try(Renamer_visit_statements([rn EXCEPT !.variables = new_scope(@)], ss), LAMBDA r :
    R("Ok", [r.s EXCEPT !.variables = delete_scope(@)], r.n))

Renamer_visit_if(rn, stmt) ==
    Try(Renamer_visit_expression(rn, stmt.condition), LAMBDA c :
    Try(Renamer_visit_scope(c.s, stmt.then_clause), LAMBDA t :
    IF stmt.else_clause = <<>>
    THEN R("Ok", t.s, [stmt EXCEPT !.condition = c.n, !.then_clause = t.n])
    ELSE Try(Renamer_visit_scope(t.s, stmt.else_clause[1]), LAMBDA el :
         R("Ok", el.s, [stmt EXCEPT !.condition = c.n, !.then_clause = t.n,
                                    !.else_clause = <<el.n>>]))))

Renamer_visit_while(rn, stmt) ==
    Try(Renamer_visit_expression(rn, stmt.condition), LAMBDA c :
    Try(Renamer_visit_scope(c.s, stmt.body), LAMBDA body :
    R("Ok", body.s, [stmt EXCEPT !.condition = c.n, !.body = body.n])))

\* Renamer::visit_for: one scope for init_decl, modify, continue and the body
Renamer_visit_for(rn, stmt) ==
    Try(Renamer_visit_let([rn EXCEPT !.variables = new_scope(@)], stmt.init_decl),
        LAMBDA init :
    Try(Renamer_visit_expression(init.s, stmt.modify_expression), LAMBDA m :
    Try(Renamer_visit_expression(m.s, stmt.continue_expression), LAMBDA c :
    Try(Renamer_visit_statements(c.s, stmt.body), LAMBDA body :
    R("Ok", [body.s EXCEPT !.variables = delete_scope(@)],
      [stmt EXCEPT !.init_decl = init.n, !.modify_expression = m.n,
                   !.continue_expression = c.n, !.body = body.n])))))

\* MutableVisitor::visit_return (default)
Renamer_visit_return(rn, stmt) ==
    IF stmt.exp = NoExpr THEN R("Ok", rn, stmt)
    ELSE Try(Renamer_visit_expression(rn, stmt.exp), LAMBDA r :
         R("Ok", r.s, [stmt EXCEPT !.exp = r.n]))

Renamer_visit_statement_kind(rn, stmt) ==
    CASE stmt.s = "If" -> Renamer_visit_if(rn, stmt)
      [] stmt.s = "Let" -> Renamer_visit_let(rn, stmt)
      [] stmt.s = "While" -> Renamer_visit_while(rn, stmt)
      [] stmt.s = "For" -> Renamer_visit_for(rn, stmt)
      [] stmt.s = "Return" -> Renamer_visit_return(rn, stmt)
      [] stmt.s \in {"Break", "Continue"} -> R("Ok", rn, stmt)
      [] stmt.s = "Expression" ->
            Try(Renamer_visit_expression(rn, stmt.expr), LAMBDA r :
            R("Ok", r.s, [stmt EXCEPT !.expr = r.n]))

Renamer_visit_statements(rn, ss) ==
    IF ss = <<>> THEN R("Ok", rn, <<>>)
    ELSE Try(Renamer_visit_statement_kind(rn, Head(ss)), LAMBDA r :
         Try(Renamer_visit_statements(r.s, Tail(ss)), LAMBDA rr :
         R("Ok", rr.s, <<r.n>> \o rr.n)))

RECURSIVE Renamer_visit_parameters(_, _, _)
\* the loop of Renamer::visit_function over the parameters: the parameter
\* takes its new name, and the let made for it is entered under that name
Renamer_visit_parameters(rn, location, parameters) ==
    IF parameters = <<>> THEN R("Ok", rn, <<>>)
    ELSE Try(new_symbol(rn, Head(parameters).name), LAMBDA name :
         LET parameter == [Head(parameters) EXCEPT !.name = name.n]
             decl == Let(location, name.n, parameter.declaration_type, True)
         IN  Try(Renamer_visit_parameters(
                     [name.s EXCEPT !.variables = insert_symbol(@, name.n, decl)],
                     location, Tail(parameters)),
                 LAMBDA rest : R("Ok", rest.s, <<parameter>> \o rest.n)))

\* Renamer::visit_function: the name of the function is left as it is
Renamer_visit_function(rn, stmt) ==
    Try(Renamer_visit_parameters([rn EXCEPT !.variables = new_scope(@)],
                                 stmt.loc, stmt.parameters), LAMBDA ps :
    Try(Renamer_visit_statements(ps.s, stmt.body), LAMBDA body :
    R("Ok", [body.s EXCEPT !.variables = delete_scope(@)],
      [stmt EXCEPT !.parameters = ps.n, !.body = body.n])))

\* Renamer::visit_struct
Renamer_visit_struct(rn, stmt) ==
    Try(new_symbol(rn, stmt.name), LAMBDA name :
    R("Ok", name.s, [stmt EXCEPT !.name = name.n]))

Renamer_visit_global_statement(rn, stmt) ==
    CASE stmt.g = "Function" -> Renamer_visit_function(rn, stmt)
      [] stmt.g = "Struct" -> Renamer_visit_struct(rn, stmt)
      [] stmt.g = "Let" ->
            Try(Renamer_visit_let(rn, stmt.let), LAMBDA r :
            R("Ok", r.s, [stmt EXCEPT !.let = r.n]))

RECURSIVE rename_statements(_, _)
rename_statements(rn, ss) ==
    IF ss = <<>> THEN R("Ok", rn, <<>>)
    ELSE Try(Renamer_visit_global_statement(rn, Head(ss)), LAMBDA r :
         Try(rename_statements(r.s, Tail(ss)), LAMBDA rr :
         R("Ok", rr.s, <<r.n>> \o rr.n)))

\* Renamer::default().rename_statements(&mut stmts) on a program the binder
\* accepted
RenameStatements ==
    /\ stage = "bound"
    /\ LET r == rename_statements(Renamer_default, stmts) IN
        /\ stmts' = IF r.err = "Ok" THEN r.n ELSE stmts
        /\ stage' = IF r.err = "Ok" THEN "renamed" ELSE "panic"
    /\ UNCHANGED <<error, binder, lhs, rhs, compat>>
    /\ UNCHANGED <<codegen_vars, driver_vars, scoped_vars>>

(***************************************************************************)
(* Family "rename": an optional struct S and a function main(p: [2; i32])  *)
(* whose body nests lets and for loops of x and uses of x and p, alone and *)
(* in an array access.                                                     *)
(***************************************************************************)
MaxRenameSize == 2

RenameFamily ==
    [lets |-> {[name |-> "x", kind |-> NoKind, init |-> Integer],
               [name |-> "x", kind |-> NoKind, init |-> Identifier("x")]},
     exprs |-> {Identifier("x"), Identifier("p"),
                ArrayAccess(Identifier("p"), Identifier("x"))},
     jumps |-> {},
     conds |-> {True},
     fors |-> {[name |-> "x", kind |-> NoKind, init |-> Integer,
                cont |-> True, modify |-> Identifier("x")]}]

RenamePrograms ==
    {structs \o <<FunctionStatement(2, "main", parameters, Kind("Void"), FALSE, body)>>
        : structs \in {<<>>, <<StructStatement(1, "S", <<>>)>>},
          parameters \in {<<>>, <<Param(3, "p", KArray(2, Kind("I32")))>>},
          body \in Bodies(RenameFamily, 4, MaxRenameSize)}

InitRename ==
    /\ stmts \in RenamePrograms
    /\ source = stmts
    /\ stage = "parsed"
    /\ error = "Ok"
    /\ binder = Binder_default
    /\ lhs = NoTy /\ rhs = NoTy /\ compat = <<FALSE, FALSE>>
    /\ symbols = EmptyMap /\ trips = 0 /\ trace = <<>> /\ verified = "none"
    /\ module = <<>>
    /\ NoDriver /\ NoScopedMap

NextRename == BindStatements \/ RenameStatements

SpecRename == InitRename /\ [][NextRename]_vars

Renamed == stage = "renamed"

\* the names a translation unit declares, in source order: functions,
\* structs, parameters, lets and for variables
DeclaredNames(ss) ==
    Concat([i \in DOMAIN ss |->
        IF ss[i].g = "Struct" THEN <<ss[i].name>>
        ELSE IF ss[i].g = "Let" THEN <<ss[i].let.name>>
        ELSE <<ss[i].name>>
             \o [j \in DOMAIN ss[i].parameters |-> ss[i].parameters[j].name]
             \o LET subs == Concat([j \in DOMAIN ss[i].body |-> SubStatements(ss[i].body[j])])
                    decls == SelectSeq(subs, LAMBDA st : st.s = "Let")
                IN  [j \in DOMAIN decls |-> decls[j].name]])

\* the counters a run of the renamer can hand out
Counters(ss) == 1..Len(DeclaredNames(ss))

\* C14: after the renamer every declared name (function, struct, parameter,
\* let, for variable) is its original name, an underscore and a counter, and
\* no two declarations have the same counter.
C14_DeclaredNamesUnique ==
    Renamed =>
        LET old == DeclaredNames(source)
            new == DeclaredNames(stmts)
        IN  \E counter \in [DOMAIN old -> Counters(source)] :
                /\ \A i \in DOMAIN old : new[i] = old[i] \o "_" \o ToString(counter[i])
                /\ \A i, j \in DOMAIN old : counter[i] = counter[j] => i = j

\* the lets (for variables among them) and parameters of a translation unit
LocalDeclarations(ss) ==
    LET sts == ProgramStatements(ss)
        Params(i) == IF ss[i].g = "Function" THEN ss[i].parameters ELSE <<>>
    IN  SelectSeq(sts, LAMBDA st : st.s = "Let") \o Concat([i \in DOMAIN ss |-> Params(i)])

\* the name of the let or parameter declared at a location
NameAt(ss, at) ==
    LET decls == LocalDeclarations(ss)
    IN  decls[CHOOSE i \in DOMAIN decls : decls[i].loc = at].name

\* the identifier nodes of a translation unit, array-access bases and indices
\* among them
Identifiers(ss) ==
    SelectSeq(ProgramExpressions(ss),
              LAMBDA expr : expr.e = "Literal" /\ expr.literal_type.l = "Identifier")

\* the array accesses of a translation unit whose base is an identifier
ArrayAccesses(ss) ==
    SelectSeq(ProgramExpressions(ss),
              LAMBDA expr : /\ expr.e = "Literal"
                            /\ expr.literal_type.l = "ArrayAccess"
                            /\ expr.literal_type.identifier.e = "Literal")

\* every identifier is the name of a declaration of ss; one bound to a local
\* variable, alone or as the base of an array access, has the name declared
\* at the location it is bound to
ReferencesCarryNames(ss) ==
    LET ids == Identifiers(ss)
        accesses == ArrayAccesses(ss)
        decls == LocalDeclarations(ss)
    IN  /\ \A i \in DOMAIN ids :
            /\ \E j \in DOMAIN decls : decls[j].name = ids[i].literal_type.name
            /\ ids[i].definition.d = "LocalVariable"
                   => ids[i].literal_type.name = NameAt(ss, ids[i].definition.at)
        /\ \A i \in DOMAIN accesses :
            accesses[i].definition.d = "LocalVariable"
                => accesses[i].literal_type.identifier.literal_type.name
                       = NameAt(ss, accesses[i].definition.at)

\* C15: on a program the binder accepted the renamer never reaches its
\* undeclared-symbol branch, and after it every identifier (a reference to a
\* let, a for variable or a parameter, an array-access base or index) carries
\* the new name of the declaration it refers to.
C15_ReferencesRenamed ==
    stage \in {"renamed", "panic"} => Renamed /\ ReferencesCarryNames(stmts)


(***************************************************************************)
(* bubblec: main, objects::build_objects_targets and linker::link_objects. *)
(* targets are the paths of the command line that are still to build; a    *)
(* target says what reading and parsing the file gives.  stage "idle" is   *)
(* the head of the loop over the targets.                                  *)
(***************************************************************************)
MaxTargets == 2

\* what a source file can hold
DriverPrograms ==
    {<<Main(<<>>, Kind("Void"), <<>>)>>,
     <<Main(<<>>, Kind("Void"), <<Let(2, "x", Kind("I32"), Integer)>>)>>,
     <<Main(<<>>, Kind("Void"), <<ExprStmt(Call("h", <<>>))>>)>>,
     <<Main(<<>>, Kind("Void"), <<Let(2, "x", Kind("Bool"), Integer)>>)>>,
     <<Main(<<>>, Kind("Void"), <<Let(2, "x", NoKind, Integer)>>)>>,
     <<Main(<<>>, Kind("Void"), <<While(True, <<Break>>)>>)>>}

Target(extension, readable, program) ==
    [path |-> "", extension |-> extension, readable |-> readable, program |-> program]

\* a file of another extension, an unreadable file, a file the parser
\* rejects (no program), or a file with a program
Targets ==
    {Target("o", TRUE, <<>>), Target("blb", FALSE, <<>>), Target("blb", TRUE, <<>>)}
        \cup {Target("blb", TRUE, <<program>>) : program \in DriverPrograms}

\* the i-th path of the command line
SourcePath(target, i) == [target EXCEPT !.path = ToString(i) \o "." \o target.extension]

\* format!("{}.o", file_name)
ObjectPath(target) == target.path \o ".o"

Idle == stage = "idle" /\ exit_status = "running"

\* the filter of build_objects_targets: a path that is no .blb is passed over
SkipTarget ==
    /\ Idle
    /\ targets # <<>>
    /\ Head(targets).extension # "blb"
    /\ targets' = Tail(targets)
    /\ UNCHANGED <<stmts, stage, error, binder, lhs, rhs, compat>>
    /\ UNCHANGED <<built_objects, files, exit_status>>
    /\ UNCHANGED <<codegen_vars, scoped_vars>>

\* load_source_file(source_code_path).map_err(CompilerError::IOError)?
LoadSourceFile ==
    /\ Idle
    /\ targets # <<>>
    /\ Head(targets).extension = "blb"
    /\ stage' = IF Head(targets).readable THEN "loaded" ELSE "failed"
    /\ error' = IF Head(targets).readable THEN error ELSE "IOError"
    /\ UNCHANGED <<stmts, binder, lhs, rhs, compat>>
    /\ UNCHANGED <<driver_vars, codegen_vars, scoped_vars>>

\* parse_source_code(source_code)?
ParseSourceCode ==
    /\ stage = "loaded"
    /\ LET program == Head(targets).program IN
        /\ stage' = IF program = <<>> THEN "failed" ELSE "parsed"
        /\ error' = IF program = <<>> THEN "Parser" ELSE error
        /\ stmts' = IF program = <<>> THEN stmts ELSE program[1]
    /\ UNCHANGED <<binder, lhs, rhs, compat>>
    /\ UNCHANGED <<driver_vars, codegen_vars, scoped_vars>>

\* the rest of build_object after build_module, and the push of
\* build_objects_targets: write_to_file(...).expect(...); written is the
\* outcome of the write
WriteObject ==
    /\ stage = "built"
    /\ \E written \in BOOLEAN :
        LET object_path == ObjectPath(Head(targets)) IN
        /\ stage' = IF written THEN "idle" ELSE "panic"
        /\ files' = IF written THEN files \cup {object_path} ELSE files
        /\ built_objects' = IF written THEN Append(built_objects, object_path)
                            ELSE built_objects
        /\ targets' = IF written THEN Tail(targets) ELSE targets
    /\ UNCHANGED <<stmts, error, binder, lhs, rhs, compat, exit_status>>
    /\ UNCHANGED <<codegen_vars, scoped_vars>>

Failed == stage \in {"failed", "check_failed", "infer_failed"}

\* main, Err(e) => { eprintln!("{:?}", e); std::process::exit(1); }
ExitFailure ==
    /\ Failed
    /\ exit_status = "running"
    /\ exit_status' = "1"
    /\ UNCHANGED <<stmts, stage, error, binder, lhs, rhs, compat>>
    /\ UNCHANGED <<targets, built_objects, files>>
    /\ UNCHANGED <<codegen_vars, scoped_vars>>

\* a panic of a pass or of an expect() ends the process
Abort ==
    /\ stage = "panic"
    /\ exit_status = "running"
    /\ exit_status' = "panic"
    /\ UNCHANGED <<stmts, stage, error, binder, lhs, rhs, compat>>
    /\ UNCHANGED <<targets, built_objects, files>>
    /\ UNCHANGED <<codegen_vars, scoped_vars>>

\* main, Ok(objs): link_objects unless --compile-only; an Err of the linker
\* is printed and main returns
LinkObjects ==
    /\ Idle
    /\ targets = <<>>
    /\ \E compile_only \in BOOLEAN, ld \in {"success", "failure", "not spawned"} :
        /\ compile_only => ld = "success"
        /\ error' = IF ~compile_only /\ ld = "failure" THEN "Linker" ELSE error
        /\ exit_status' = IF ~compile_only /\ ld = "not spawned" THEN "panic" ELSE "0"
        /\ files' = IF ~compile_only /\ ld = "success" THEN files \cup {"./program"}
                    ELSE files
    /\ UNCHANGED <<stmts, stage, binder, lhs, rhs, compat>>
    /\ UNCHANGED <<targets, built_objects>>
    /\ UNCHANGED <<codegen_vars, scoped_vars>>

InitDriver ==
    /\ targets \in UNION {{[i \in 1..n |-> SourcePath(paths[i], i)] : paths \in [1..n -> Targets]}
                           : n \in 1..MaxTargets}
    /\ built_objects = <<>> /\ files = {} /\ exit_status = "running"
    /\ stmts = <<>>
    /\ stage = "idle"
    /\ error = "Ok"
    /\ binder = Binder_default
    /\ lhs = NoTy /\ rhs = NoTy /\ compat = <<FALSE, FALSE>>
    /\ NoCodegen /\ NoScopedMap

NextDriver ==
    \/ SkipTarget \/ LoadSourceFile \/ ParseSourceCode
    \/ BindStatements \/ RunTypeChecker \/ DesugarAst \/ BuildModule
    \/ WriteObject \/ LinkObjects \/ ExitFailure \/ Abort

SpecDriver == InitDriver /\ [][NextDriver]_vars

\* C17: the process exits with status 1 whenever a stage failed (parse, bind,
\* type check, I/O, link) and with status 0 only when every stage succeeded.
C17_ExitStatus ==
    /\ exit_status # "running" /\ error # "Ok" => exit_status = "1"
    /\ exit_status = "0" => error = "Ok"

\* the lets and parameters of new are those of old under <name>_<counter>
RenamedTree(old, new) ==
    LET was == LocalDeclarations(old)
        now == LocalDeclarations(new)
    IN  \A i \in DOMAIN was :
            \E counter \in 1..Len(was) :
                now[i].name = was[i].name \o "_" \o ToString(counter)

\* a step of the build in the order of the passes: each pass starts from the
\* success of the one before it, the tree that is translated has been
\* renamed after its locals were collected, and a failure ends the build
PassOrder ==
    /\ stage' # stage =>
           /\ stage' = "parsed" => stage = "loaded"
           /\ stage' = "bound" => stage = "parsed"
           /\ stage' \in {"check_failed", "infer_failed", "typed"} => stage = "bound"
           /\ stage' = "desugared" => stage = "typed"
           /\ stage' = "built" =>
                  /\ stage = "desugared"
                  /\ symbols' = dump_global_statements(Collector_default, stmts).n
                  /\ RenamedTree(stmts, stmts')
    /\ Failed => stage' = stage /\ files' = files /\ built_objects' = built_objects

\* C18: the passes of a source file run in the order parse, bind, type check,
\* integer inference, desugar, locals collection, rename, IR translation; a
\* pass starts only after the success of the earlier ones, and after the
\* first failure no pass runs and no object file is written.
C18_PassOrder == [][PassOrder]_vars

\* C19: a module the IR verifier rejects makes translate_statements fail (the
\* build does not go on as built), and no object file is written from it.
C19_NoObjectFromUnverified ==
    [][/\ verified' = "invalid" => stage' # "built"
       /\ files' # files /\ stage = "built" => verified = "valid"]_vars


(***************************************************************************)
(* type_system::utils::ScopedMap on its own: any sequence of new_scope,    *)
(* delete_scope, insert_symbol and find_symbol calls, as the tests of      *)
(* utils.rs make them.  found holds the last find_symbol call and its      *)
(* result until the map is changed.                                        *)
(***************************************************************************)
MaxScopes == 3

ScopedSymbols == {"a", "b"}

ScopedElements == {"far", "near"}

InScopedMap == stage = "scoped"

NewScope ==
    /\ InScopedMap
    /\ Len(scoped) < MaxScopes
    /\ scoped' = new_scope(scoped)
    /\ found' = <<>>
    /\ UNCHANGED <<stmts, stage, error, binder, lhs, rhs, compat>>
    /\ UNCHANGED <<codegen_vars, driver_vars>>

\* assert!(!self.0.is_empty()); self.0.pop().unwrap();
DeleteScope ==
    /\ InScopedMap
    /\ scoped' = IF scoped = <<>> THEN scoped ELSE delete_scope(scoped)
    /\ stage' = IF scoped = <<>> THEN "panic" ELSE stage
    /\ found' = <<>>
    /\ UNCHANGED <<stmts, error, binder, lhs, rhs, compat>>
    /\ UNCHANGED <<codegen_vars, driver_vars>>

\* self.0.last_mut().expect("insert on empty scoped map!").insert(name, element)
InsertSymbol ==
    /\ InScopedMap
    /\ \E name \in ScopedSymbols, element \in ScopedElements :
        /\ scoped' = IF scoped = <<>> THEN scoped ELSE insert_symbol(scoped, name, element)
        /\ stage' = IF scoped = <<>> THEN "panic" ELSE stage
    /\ found' = <<>>
    /\ UNCHANGED <<stmts, error, binder, lhs, rhs, compat>>
    /\ UNCHANGED <<codegen_vars, driver_vars>>

FindSymbol ==
    /\ InScopedMap
    /\ \E symbol \in ScopedSymbols :
        found' = <<[symbol |-> symbol, result |-> find_symbol(scoped, symbol)]>>
    /\ UNCHANGED <<stmts, stage, error, binder, lhs, rhs, compat, scoped>>
    /\ UNCHANGED <<codegen_vars, driver_vars>>

InitScoped ==
    /\ scoped = ScopedMap_default
    /\ found = <<>>
    /\ stmts = <<>>
    /\ stage = "scoped"
    /\ error = "Ok"
    /\ binder = Binder_default
    /\ lhs = NoTy /\ rhs = NoTy /\ compat = <<FALSE, FALSE>>
    /\ NoCodegen /\ NoDriver

NextScoped == NewScope \/ DeleteScope \/ InsertSymbol \/ FindSymbol

SpecScoped == InitScoped /\ [][NextScoped]_vars

RECURSIVE Innermost(_, _)
\* the binding of a symbol in the innermost live scope that has one, going
\* out scope by scope; <<>> when no live scope binds it
Innermost(m, symbol) ==
    IF m = <<>> THEN <<>>
    ELSE IF symbol \in DOMAIN m[Len(m)] THEN <<m[Len(m)][symbol]>>
    ELSE Innermost(SubSeq(m, 1, Len(m) - 1), symbol)

\* a find_symbol call returns the innermost live binding; a delete_scope
\* leaves the enclosing scopes as they were, and a symbol that only the
\* deleted scope bound is not found after it
ScopedMapStep ==
    /\ found' # <<>> => found'[1].result = Innermost(scoped', found'[1].symbol)
    /\ Len(scoped') < Len(scoped) =>
           /\ scoped' = SubSeq(scoped, 1, Len(scoped) - 1)
           /\ \A symbol \in ScopedSymbols :
                 /\ (\A i \in 1..Len(scoped') : symbol \notin DOMAIN scoped[i])
                        => find_symbol(scoped', symbol) = <<>>
                 /\ (\E i \in 1..Len(scoped') : symbol \in DOMAIN scoped[i])
                        => find_symbol(scoped', symbol)
                               = Innermost(SubSeq(scoped, 1, Len(scoped) - 1), symbol)

\* C20: find_symbol returns the binding of the innermost live scope that binds
\* the symbol, falls back to the enclosing scopes, and returns None when no
\* live scope binds it; after delete_scope the symbols of the deleted scope
\* are not found and the bindings of the remaining scopes are unchanged.
C20_FindInnermost == [][ScopedMapStep]_vars

\* a find_symbol call on a symbol that two live scopes bind differently
C20_Witness ==
    /\ found # <<>>
    /\ \E i, j \in 1..Len(scoped) :
        /\ i < j
        /\ found[1].symbol \in DOMAIN scoped[i] \cap DOMAIN scoped[j]
        /\ scoped[i][found[1].symbol] # scoped[j][found[1].symbol]


(***************************************************************************)
(* type_system::run_type_checker in its two calls, check_statements and    *)
(* infer_statements, over the family "operation": extern f(): i32, extern  *)
(* g(r: i32): i32 and main(p: i32, arr: [2; i32]) whose body is the        *)
(* statements  a op b;  b op a;  for two operands a and b.                 *)
(***************************************************************************)
Operands ==
    {Integer, True, Identifier("p"), Call("f", <<>>), Call("g", <<Identifier("p")>>),
     Call("g", <<Integer>>), ArrayAccess(Identifier("arr"), Integer),
     BinaryOperation(Identifier("p"), "Plus", Identifier("p")),
     BinaryOperation(Integer, "Plus", Integer)}

Operators == {"Plus", "Multiply", "Less"}

OperationPrograms ==
    {<<ExternF,
       FunctionStatement(2, "g", <<Param(3, "r", Kind("I32"))>>, Kind("I32"), TRUE, <<>>),
       FunctionStatement(4, "main",
                         <<Param(5, "p", Kind("I32")), Param(6, "arr", KArray(2, Kind("I32")))>>,
                         Kind("Void"), FALSE,
                         <<ExprStmt(BinaryOperation(a, op, b)),
                           ExprStmt(BinaryOperation(b, op, a))>>)>>
        : a \in Operands, b \in Operands, op \in Operators}

\* TypeChecker::default().check_statements(stmts)?
CheckStatements ==
    /\ stage = "bound"
    /\ LET checked == check_statements(TypeChecker_default(stmts), stmts) IN
        /\ error' = checked.err
        /\ stage' = IF checked.err = "Ok" THEN "checked" ELSE "check_failed"
        /\ stmts' = IF checked.err = "Ok" THEN checked.n ELSE stmts
    /\ UNCHANGED <<binder, lhs, rhs, compat>>
    /\ UNCHANGED <<codegen_vars, driver_vars, scoped_vars>>

\* IntegerInference::default().infer_statements(stmts)
InferStatements ==
    /\ stage = "checked"
    /\ LET inferred == infer_statements(IntegerInference_default(DeclTypes(stmts), stmts),
                                        stmts) IN
        /\ error' = inferred.err
        /\ stage' = IF inferred.err = "Ok" THEN "typed" ELSE "infer_failed"
        /\ stmts' = IF inferred.err = "Ok" THEN inferred.n ELSE stmts
    /\ UNCHANGED <<binder, lhs, rhs, compat>>
    /\ UNCHANGED <<codegen_vars, driver_vars, scoped_vars>>

InitOperations ==
    /\ stmts \in OperationPrograms
    /\ stage = "parsed"
    /\ error = "Ok"
    /\ binder = Binder_default
    /\ lhs = NoTy /\ rhs = NoTy /\ compat = <<FALSE, FALSE>>
    /\ NoCodegen /\ NoDriver /\ NoScopedMap

NextOperations == BindStatements \/ CheckStatements \/ InferStatements

SpecOperations == InitOperations /\ [][NextOperations]_vars

\* the i-th statement of the last function of a translation unit
Operation(ss, i) == ss[Len(ss)].body[i].expr

\* C21: the type the checker gives an arithmetic operation does not depend on
\* the order of its operands: a op b and b op a, both accepted, have the same
\* type (the sized type when one operand is an Int literal and the other a
\* sized integer).
C21_OperandOrder ==
    stage = "checked" /\ Operation(stmts, 1).op \in ArithmeticOps
        => Operation(stmts, 1).ty = Operation(stmts, 2).ty

\* what inference is to make of an operation the checker typed
OperandsMatched(checked, inferred) ==
    LET IsInt(expr) == expr.ty = Ty("Int") IN
    /\ IsInt(checked.left) /\ ~IsInt(checked.right) =>
           inferred.left.ty = checked.right.ty /\ inferred.right.ty = checked.right.ty
    /\ ~IsInt(checked.left) /\ IsInt(checked.right) =>
           inferred.right.ty = checked.left.ty /\ inferred.left.ty = checked.left.ty
    /\ IsInt(checked.left) /\ IsInt(checked.right) =>
           inferred.left.ty = Ty("I64") /\ inferred.right.ty = Ty("I64")
    /\ (inferred.left.ty = Ty("I64") /\ inferred.right.ty = Ty("I64")
            /\ (IsInt(checked.left) \/ IsInt(checked.right)))
           => \/ IsInt(checked.left) /\ IsInt(checked.right)
              \/ Ty("I64") \in {checked.left.ty, checked.right.ty}

\* C22: in an operation with exactly one Int operand inference gives that
\* operand the type of the other one and leaves the other as it was, whatever
\* expression the other is; both become I64 only when both are Int.
C22_IntOperandTakesOtherType ==
    [][stage = "checked" /\ stage' = "typed"
           => OperandsMatched(Operation(stmts, 1), Operation(stmts', 1))]_vars


(***************************************************************************)
(* check_statements and infer_statements over the family "init" and the    *)
(* family "return": function main(p: ptr i32): K { return e; }.            *)
(***************************************************************************)
ReturnPrograms ==
    {<<ExternF,
       FunctionStatement(2, "main", <<Param(3, "p", KPtr(Kind("I32")))>>, k, FALSE,
                         <<Return(e)>>)>>
        : k \in InitKinds \ {NoKind}, e \in InitExpressions}

InitInference ==
    /\ stmts \in InitPrograms \cup ReturnPrograms
    /\ stage = "parsed"
    /\ error = "Ok"
    /\ binder = Binder_default
    /\ lhs = NoTy /\ rhs = NoTy /\ compat = <<FALSE, FALSE>>
    /\ NoCodegen /\ NoDriver /\ NoScopedMap

NextInference == BindStatements \/ CheckStatements \/ InferStatements

SpecInference == InitInference /\ [][NextInference]_vars

\* the type slot of an expression node; a group or an addrof has none
TypeSlot(expr) == IF "ty" \in DOMAIN expr THEN expr.ty ELSE NoTy

\* the expression of the annotated let or the return that is the statement
\* of main, and the expressions below it
InferredExpressions(ss) ==
    LET stmt == ss[Len(ss)].body[1] IN
    IF stmt.s = "Return" THEN SubExpressions(stmt.exp)
    ELSE IF stmt.declaration_type # NoKind THEN SubExpressions(stmt.init_exp)
    ELSE <<>>

\* inference rewrote integer types only, and no Integer literal is left with
\* a type that is no sized integer
OnlyIntegersRewritten(checked, inferred) ==
    \A i \in DOMAIN checked :
        /\ ~is_integer(TypeSlot(checked[i])) => TypeSlot(inferred[i]) = TypeSlot(checked[i])
        /\ (checked[i].e = "Literal" /\ checked[i].literal_type.l = "Integer")
               => TypeSlot(inferred[i]).t \in SizedIntegers

\* C23: on a let with an annotation or a return, inference rewrites only the
\* types of integer-typed sub-expressions and leaves the others as the
\* checker set them, so every Integer literal ends with a sized integer type.
C23_OnlyIntegersRewritten ==
    [][stage = "checked" /\ stage' = "typed"
           => OnlyIntegersRewritten(InferredExpressions(stmts), InferredExpressions(stmts'))]_vars


(***************************************************************************)
(* Family "assign": main(p: K, arr: [2; i32]) { target = e; } for the      *)
(* targets p, arr[0] and deref p.  The family "pointer" adds the lets and  *)
(* returns of the families "init" and "return".                            *)
(***************************************************************************)
AssignKinds == {Kind("I32"), Kind("Bool"), KPtr(Kind("I32"))}

AssignTargets ==
    {Identifier("p"), ArrayAccess(Identifier("arr"), Integer), Deref(Identifier("p"))}

AssignExpressions ==
    {Integer, True, NullLit, Identifier("p"), Call("f", <<>>),
     BinaryOperation(Integer, "Plus", Integer), ArrayAccess(Identifier("arr"), Integer)}

AssignPrograms ==
    {<<ExternF,
       FunctionStatement(2, "main",
                         <<Param(3, "p", k), Param(4, "arr", KArray(2, Kind("I32")))>>,
                         Kind("Void"), FALSE,
                         <<ExprStmt(Assignment(target, e))>>)>>
        : k \in AssignKinds, target \in AssignTargets, e \in AssignExpressions}

InitAssign ==
    /\ stmts \in AssignPrograms
    /\ stage = "parsed"
    /\ error = "Ok"
    /\ binder = Binder_default
    /\ lhs = NoTy /\ rhs = NoTy /\ compat = <<FALSE, FALSE>>
    /\ NoCodegen /\ NoDriver /\ NoScopedMap

SpecAssign == InitAssign /\ [][Next]_vars

InitPointers ==
    /\ stmts \in InitPrograms \cup ReturnPrograms \cup AssignPrograms
    /\ stage = "parsed"
    /\ error = "Ok"
    /\ binder = Binder_default
    /\ lhs = NoTy /\ rhs = NoTy /\ compat = <<FALSE, FALSE>>
    /\ NoCodegen /\ NoDriver /\ NoScopedMap

SpecPointers == InitPointers /\ [][Next]_vars

\* the type checker and inference accepted the program
TypeChecked == stage \in {"typed", "desugared", "built"}

\* the null literals of a translation unit
Nulls(ss) ==
    SelectSeq(ProgramExpressions(ss),
              LAMBDA expr : expr.e = "Literal" /\ expr.literal_type.l = "Null")

\* the statement of main
Statement == stmts[Len(stmts)].body[1]

\* C24: every null literal of a program that passed type checking has a
\* concrete pointer type recorded on it, so the translator's lookup of it does
\* not fail; the null that initialises a let annotated ptr T has T recorded.
C24_NullHasConcreteType ==
    TypeChecked =>
        /\ \A i \in DOMAIN Nulls(stmts) : IsPointerType(Nulls(stmts)[i].literal_type.ty)
        /\ (/\ Statement.s = "Let"
            /\ Statement.declaration_type.k = "Ptr"
            /\ Statement.init_exp.e = "Literal"
            /\ Statement.init_exp.literal_type.l = "Null")
               => Statement.init_exp.literal_type.ty
                      = Null(<<TypeFrom(Statement.declaration_type.to.kind)>>)

\* C25: an assignment the type checker accepted goes through inference and
\* translation without a panic, and inference leaves no Int right side.
C25_AssignmentsHandled ==
    /\ ~(stage = "infer_failed" /\ error = "panic")
    /\ stage # "panic"
    /\ TypeChecked => Statement.expr.right.ty # Ty("Int")


\* C26: wherever the binder stands, at its return or at the statement it
\* stopped on, at least the global scope is on the stack and the loop depth is
\* not negative; when bind_statements returns Ok every scope that was pushed
\* has been popped: only the global scope is left, nested_loop is 0 and
\* in_function is false.
C26_ScopesBalanced ==
    /\ Len(binder.local_variables) >= 1
    /\ binder.nested_loop >= 0
    /\ Bound =>
        /\ Len(binder.local_variables) = 1
        /\ binder.nested_loop = 0
        /\ ~binder.in_function

\* an accepted function whose body holds a loop and an if
C26_Witness ==
    /\ Bound
    /\ \E i \in DOMAIN ProgramStatements(stmts) :
           ProgramStatements(stmts)[i].s \in {"While", "For"}
    /\ \E i \in DOMAIN ProgramStatements(stmts) : ProgramStatements(stmts)[i].s = "If"


\* the declaration each identifier of a translation unit is resolved to, in
\* source order
Resolved(ss) == [i \in DOMAIN Identifiers(ss) |-> Identifiers(ss)[i].definition]

\* C27: the renamer resolves every identifier reference to the declaration
\* the binder bound it to, the x in the initializer of a let x among them.
C27_SameDeclaration ==
    [][stage = "bound" /\ stage' = "renamed" => Resolved(stmts') = Resolved(stmts)]_vars


(***************************************************************************)
(* Family "emit": extern f(): i32, extern g(): [2; i32] and a function     *)
(* main(p: i32): i32 or main(p: i32): void whose body nests lets of x, of  *)
(* p and of the array a = [p, f()], uses of x and of g()[0], and returns.  *)
(***************************************************************************)
MaxEmitSize == 3

EmitFamily(result) ==
    [lets |-> {[name |-> "x", kind |-> Kind("I32"), init |-> Call("f", <<>>)],
               [name |-> "p", kind |-> Kind("I32"), init |-> Integer],
               [name |-> "a", kind |-> KArray(2, Kind("I32")),
                init |-> ArrayInitializer(<<Identifier("p"), Call("f", <<>>)>>)]},
     exprs |-> {Identifier("x"), ArrayAccess(Call("g", <<>>), Integer)},
     jumps |-> {Return(result)},
     conds |-> {True},
     fors |-> {}]

EmitPrograms ==
    UNION {{<<ExternF,
              FunctionStatement(2, "g", <<>>, KArray(2, Kind("I32")), TRUE, <<>>),
              FunctionStatement(3, "main", <<Param(4, "p", Kind("I32"))>>, kind, FALSE,
                                body)>>
               : body \in Bodies(EmitFamily(IF kind = Kind("Void") THEN NoExpr ELSE Integer),
                                 5, MaxEmitSize)}
           : kind \in {Kind("I32"), Kind("Void")}}

InitEmit ==
    /\ stmts \in EmitPrograms
    /\ stage = "parsed"
    /\ error = "Ok"
    /\ binder = Binder_default
    /\ lhs = NoTy /\ rhs = NoTy /\ compat = <<FALSE, FALSE>>
    /\ NoCodegen /\ NoDriver /\ NoScopedMap

SpecEmit == InitEmit /\ [][Next]_vars


\* the instructions of the module, function by function and block by block
Instructions ==
    Concat([f \in DOMAIN module |->
               Concat([b \in DOMAIN module[f].blocks |-> module[f].blocks[b].code])])

\* the parameters and lets of the functions of a translation unit, in the
\* order the Translator builds their allocas
Declarations(ss) ==
    Concat([i \in DOMAIN ss |->
               IF ss[i].g = "Function" /\ ~ss[i].is_extern
               THEN ss[i].parameters
                        \o SelectSeq(Concat([j \in DOMAIN ss[i].body |->
                                                SubStatements(ss[i].body[j])]),
                                     LAMBDA st : st.s = "Let")
               ELSE <<>>])

\* the number of the alloca built for the declaration at a location
SlotOf(ss, at) ==
    CHOOSE k \in DOMAIN Declarations(ss) : Declarations(ss)[k].loc = at

Allocas == SelectSeq(Instructions, LAMBDA inst : inst.op = "alloca")

\* C28: the Translator builds one alloca for every parameter and every let,
\* and every load, store and element address built for an identifier or a let
\* uses the alloca of the declaration the binder bound it to, so that two
\* declarations of the same name never share a slot.
C28_OwnSlot ==
    Built =>
        /\ Len(Allocas) = Len(Declarations(stmts))
        /\ \A k \in DOMAIN Declarations(stmts) :
               \E i \in DOMAIN Allocas :
                   Allocas[i].slot = k /\ Allocas[i].name = Declarations(stmts)[k].name
        /\ \A i \in DOMAIN Instructions :
               LET inst == Instructions[i] IN
               (inst.op \in {"load", "store"} \/ (inst.op = "gep" /\ inst.slot # 0))
                   => inst.slot = SlotOf(stmts, inst.at)

\* the calls of a translation unit, in source order
Calls(ss) == SelectSeq(ProgramExpressions(ss), LAMBDA expr : expr.e = "Call")

\* the callees of the call instructions of the module, in order
BuiltCalls ==
    LET calls == SelectSeq(Instructions, LAMBDA inst : inst.op = "call")
    IN  [i \in DOMAIN calls |-> calls[i].name]

\* C29: the module holds one call instruction for every call expression of
\* the source, in source order: a call in a let initializer, in an array
\* initializer or as the base of an array access is built once.
C29_CallsBuiltOnce ==
    Built => BuiltCalls = [i \in DOMAIN Calls(stmts) |-> Calls(stmts)[i].callee]

Terminators == {"ret", "br", "br_cond"}

\* C30: every basic block of every function of the module ends with a
\* terminator and holds no other terminator.
C30_OneTerminator ==
    Built =>
        \A f \in DOMAIN module : \A b \in DOMAIN module[f].blocks :
            LET code == module[f].blocks[b].code IN
            /\ code # <<>>
            /\ code[Len(code)].op \in Terminators
            /\ \A i \in 1..(Len(code) - 1) : code[i].op \notin Terminators

====
